---- MODULE Spec2Model ----
(***************************************************************************)
(* Perception-Validation-Actuation loop of the desktop agent.              *)
(*                                                                         *)
(* Part 1: components/controller.py (ActionValidator, UserConfirmation,    *)
(*         ScreenInteraction, ApplicationManager, Controller) with the     *)
(*         emergency-stop keyboard listener running beside the main cycle. *)
(* Part 2: real_desktop_agent.py execute_user_command with the             *)
(*         utils/task_tracker.py TaskTracker it drives.                    *)
(*                                                                         *)
(* Python strings are sequences of one-character strings, so that          *)
(* lower-casing and substring search are computed, not assumed.  A Python  *)
(* dict is a function from key names to values.                            *)
(***************************************************************************)
EXTENDS Integers, Sequences, FiniteSets, TLC

-----------------------------------------------------------------------------
(* Bounds of the model *)

MaxHistory == 1      \* calls that may append to action_history before a clear
MaxSeqLen == 2       \* longest list given to execute_action_sequence
MaxSteps == 5        \* longest plan given to execute_user_command
ScreenW == 100       \* pyautogui.size() width
ScreenH == 80        \* pyautogui.size() height

-----------------------------------------------------------------------------
(* Strings *)

UpperChars == <<"A","B","C","D","E","F","G","H","I","J","K","L","M",
                "N","O","P","Q","R","S","T","U","V","W","X","Y","Z">>
LowerChars == <<"a","b","c","d","e","f","g","h","i","j","k","l","m",
                "n","o","p","q","r","s","t","u","v","w","x","y","z">>

\* str.lower() on one character
LowerChar(c) ==
    IF \E i \in 1..26 : UpperChars[i] = c
    THEN LowerChars[CHOOSE i \in 1..26 : UpperChars[i] = c]
    ELSE c

\* str.lower()
Lower(s) == [i \in 1..Len(s) |-> LowerChar(s[i])]

\* Python's  needle in hay  for strings
Contains(hay, needle) ==
    \E i \in 0..(Len(hay) - Len(needle)) :
        \A j \in 1..Len(needle) : hay[i + j] = needle[j]

Digits == <<"0","1","2","3","4","5","6","7","8","9">>

RECURSIVE NatStr(_)
NatStr(n) == IF n < 10 THEN <<Digits[n + 1]>>
             ELSE NatStr(n \div 10) \o <<Digits[(n % 10) + 1]>>

\* str(int)
IntStr(n) == IF n < 0 THEN <<"-">> \o NatStr(-n) ELSE NatStr(n)

-----------------------------------------------------------------------------
(* config.py *)

T_click == <<"c","l","i","c","k">>
T_type == <<"t","y","p","e">>
T_key_press == <<"k","e","y","_","p","r","e","s","s">>
T_scroll == <<"s","c","r","o","l","l">>
T_drag == <<"d","r","a","g">>
T_file_operation == <<"f","i","l","e","_","o","p","e","r","a","t","i","o","n">>
T_system_command == <<"s","y","s","t","e","m","_","c","o","m","m","a","n","d">>
T_password_entry == <<"p","a","s","s","w","o","r","d","_","e","n","t","r","y">>
T_move_mouse == <<"m","o","v","e","_","m","o","u","s","e">>
T_launch_app == <<"l","a","u","n","c","h","_","a","p","p">>
T_close_app == <<"c","l","o","s","e","_","a","p","p">>
T_wait == <<"w","a","i","t">>
T_unknown == <<"u","n","k","n","o","w","n">>

ACTION_SAFETY_LEVELS ==
    (T_click :> 0) @@ (T_type :> 1) @@ (T_key_press :> 1) @@ (T_scroll :> 0) @@
    (T_drag :> 1) @@ (T_file_operation :> 3) @@ (T_system_command :> 3) @@
    (T_password_entry :> 3)

SENSITIVE_KEYWORDS == <<
    <<"p","a","s","s","w","o","r","d">>,
    <<"c","r","e","d","i","t"," ","c","a","r","d">>,
    <<"d","e","l","e","t","e">>,
    <<"f","o","r","m","a","t">>,
    <<"s","u","d","o">>,
    <<"a","d","m","i","n">>,
    <<"s","y","s","t","e","m","3","2">>,
    <<"r","e","g","i","s","t","r","y">>,
    <<"r","m"," ","-","r","f">>,
    <<"d","e","l"," ","/","f">>,
    <<"f","o","r","m","a","t"," ","c",":">> >>

-----------------------------------------------------------------------------
(* Action dicts *)

\* The keys an action dict may carry, in the order str(dict) prints them here
\* (a dict prints in insertion order; callers write "type" first).
KeyOrder == <<"type", "x", "y", "text", "key", "direction", "start_x",
              "start_y", "end_x", "end_y", "app_name", "duration",
              "operation", "path", "command", "target", "target_element",
              "stop_on_failure">>

KeyChars ==
    [type |-> <<"t","y","p","e">>, x |-> <<"x">>, y |-> <<"y">>,
     text |-> <<"t","e","x","t">>, key |-> <<"k","e","y">>,
     direction |-> <<"d","i","r","e","c","t","i","o","n">>,
     start_x |-> <<"s","t","a","r","t","_","x">>,
     start_y |-> <<"s","t","a","r","t","_","y">>,
     end_x |-> <<"e","n","d","_","x">>,
     end_y |-> <<"e","n","d","_","y">>,
     app_name |-> <<"a","p","p","_","n","a","m","e">>,
     duration |-> <<"d","u","r","a","t","i","o","n">>,
     operation |-> <<"o","p","e","r","a","t","i","o","n">>,
     path |-> <<"p","a","t","h">>,
     command |-> <<"c","o","m","m","a","n","d">>,
     target |-> <<"t","a","r","g","e","t">>,
     target_element |-> <<"t","a","r","g","e","t","_","e","l","e","m","e","n","t">>,
     stop_on_failure |-> <<"s","t","o","p","_","o","n","_","f","a","i","l","u","r","e">>]

IntKeys == {"x", "y", "start_x", "start_y", "end_x", "end_y", "duration"}
BoolKeys == {"stop_on_failure"}

\* repr() of the value stored under key k
ValueRepr(k, v) ==
    IF k \in IntKeys THEN IntStr(v)
    ELSE IF k \in BoolKeys
         THEN (IF v THEN <<"T","r","u","e">> ELSE <<"F","a","l","s","e">>)
         ELSE <<"'">> \o v \o <<"'">>

RECURSIVE DictItems(_, _, _)
DictItems(a, i, first) ==
    IF i > Len(KeyOrder) THEN << >>
    ELSE LET k == KeyOrder[i] IN
         IF k \in DOMAIN a
         THEN (IF first THEN << >> ELSE <<",", " ">>)
              \o <<"'">> \o KeyChars[k] \o <<"'", ":", " ">>
              \o ValueRepr(k, a[k]) \o DictItems(a, i + 1, FALSE)
         ELSE DictItems(a, i + 1, first)

\* str(action)
DictStr(a) == <<"{">> \o DictItems(a, 1, TRUE) \o <<"}">>

\* action.get(key, default)
Get(a, k, default) == IF k \in DOMAIN a THEN a[k] ELSE default

-----------------------------------------------------------------------------
(* components/controller.py: ActionValidator *)

\* the keyword search without .lower()
SensitiveMatch_case_sensitive(action) ==
    \E i \in 1..Len(SENSITIVE_KEYWORDS) :
        Contains(DictStr(action), SENSITIVE_KEYWORDS[i])

\* for keyword in self.sensitive_keywords: if keyword in action_text
SensitiveMatch(action) ==
    LET action_text == Lower(DictStr(action)) IN
    \E i \in 1..Len(SENSITIVE_KEYWORDS) :
        Contains(action_text, SENSITIVE_KEYWORDS[i])

\* the level test without the safe_mode term
LevelNeedsConfirmation_ignores_safe_mode(safety_level, safeMode) ==
    safety_level >= 3

\* the level test with > in place of >=
LevelNeedsConfirmation_above3(safety_level, safeMode) ==
    safety_level > 3 \/ ~safeMode

\* requires_confirmation = safety_level >= 3 or not CONFIG.controller.safe_mode
LevelNeedsConfirmation(safety_level, safeMode) ==
    safety_level >= 3 \/ ~safeMode

\* the parameter checks with the click test using "and" in place of "or"
MissingParameter_and(action_type, action) ==
    IF action_type = T_click
    THEN (IF "x" \notin DOMAIN action /\ "y" \notin DOMAIN action
          THEN "Click action missing coordinates" ELSE "")
    ELSE IF action_type = T_type
    THEN (IF "text" \notin DOMAIN action THEN "Type action missing text" ELSE "")
    ELSE IF action_type = T_key_press
    THEN (IF "key" \notin DOMAIN action
          THEN "Key press action missing key" ELSE "")
    ELSE ""

\* the per-type parameter checks; "" when the parameters are present
MissingParameter(action_type, action) ==
    IF action_type = T_click
    THEN (IF "x" \notin DOMAIN action \/ "y" \notin DOMAIN action
          THEN "Click action missing coordinates" ELSE "")
    ELSE IF action_type = T_type
    THEN (IF "text" \notin DOMAIN action THEN "Type action missing text" ELSE "")
    ELSE IF action_type = T_key_press
    THEN (IF "key" \notin DOMAIN action
          THEN "Key press action missing key" ELSE "")
    ELSE ""

\* ActionValidator.validate_action: (is_valid, error_message, requires_confirmation)
validate_action(action, safeMode) ==
    LET action_type == Lower(Get(action, "type", << >>)) IN
    IF action_type \notin DOMAIN ACTION_SAFETY_LEVELS
    THEN [is_valid |-> FALSE, error |-> "Unsupported action type",
          requires_confirmation |-> FALSE]
    ELSE LET safety_level == ACTION_SAFETY_LEVELS[action_type]
             requires_confirmation ==
                 LevelNeedsConfirmation(safety_level, safeMode)
                 \/ SensitiveMatch(action)
             missing == MissingParameter(action_type, action)
         IN IF missing # ""
            THEN [is_valid |-> FALSE, error |-> missing,
                  requires_confirmation |-> FALSE]
            ELSE [is_valid |-> TRUE, error |-> "None",
                  requires_confirmation |-> requires_confirmation]

-----------------------------------------------------------------------------
(* components/controller.py: UserConfirmation *)

\* What the confirmation channel does when it is asked:
\*   tk_missing    importlib finds no tkinter
\*   dialog_yes    messagebox.askyesno returns True
\*   dialog_no     messagebox.askyesno returns False
\*   dialog_open   the dialog is never answered (askyesno has no timeout)
\*   dialog_error  the import or the dialog raises something other than ImportError
\*   console_yes   ImportError, then input() gives "y" or "yes"
\*   console_other ImportError, then input() gives anything else
\*   console_eof   ImportError, then input() raises
Channels == {"tk_missing", "dialog_yes", "dialog_no", "dialog_open",
             "dialog_error", "console_yes", "console_other", "console_eof"}

\* UserConfirmation.request_confirmation: "approved" (True), "denied" (False),
\* "raised" (an exception leaves the method), "blocked" (it never returns)
request_confirmation(confirmSensitive, channel) ==
    IF ~confirmSensitive THEN "approved"
    ELSE CASE channel = "tk_missing" -> "approved"
           [] channel = "dialog_yes" -> "approved"
           [] channel = "dialog_no" -> "denied"
           [] channel = "dialog_open" -> "blocked"
           [] channel = "dialog_error" -> "denied"
           [] channel = "console_yes" -> "approved"
           [] channel = "console_other" -> "denied"
           [] channel = "console_eof" -> "raised"

-----------------------------------------------------------------------------
(* components/controller.py: ScreenInteraction and ApplicationManager *)

\* int(x * self.scaling_factor) with scaling_factor = sc[1] / sc[2]
Scale(x, sc) ==
    LET v == x * sc[1] IN
    IF v >= 0 THEN v \div sc[2] ELSE -((-v) \div sc[2])

\* ScreenInteraction._validate_coordinates
validate_coordinates(x, y) ==
    0 <= x /\ x <= ScreenW /\ 0 <= y /\ y <= ScreenH

\* Each low-level operation gives [ok, events]: its return value and the
\* OS-level calls it issued, each with whether it raised.  osOk = FALSE: the
\* OS-level call raises.
LowLevel(ok, events) == [ok |-> ok, events |-> events]

\* the click issuing pyautogui.click twice
click_twice(x, y, sc, osOk) ==
    LET adj_x == Scale(x, sc)
        adj_y == Scale(y, sc)
        ev == [op |-> "pyautogui.click", x |-> adj_x, y |-> adj_y,
               raised |-> ~osOk]
    IN IF ~validate_coordinates(adj_x, adj_y) THEN LowLevel(FALSE, << >>)
       ELSE LowLevel(osOk, <<ev, ev>>)

\* ScreenInteraction.click
click(x, y, sc, osOk) ==
    LET adj_x == Scale(x, sc)
        adj_y == Scale(y, sc)
    IN IF ~validate_coordinates(adj_x, adj_y) THEN LowLevel(FALSE, << >>)
       ELSE LowLevel(osOk, <<[op |-> "pyautogui.click", x |-> adj_x, y |-> adj_y, raised |-> ~osOk]>>)

\* ScreenInteraction.type_text (Linux: xdotool first, pyautogui.write after it fails)
type_text(osOk) ==
    IF osOk THEN LowLevel(TRUE, <<[op |-> "xdotool.type", x |-> 0, y |-> 0, raised |-> ~osOk]>>)
    ELSE LowLevel(FALSE, <<[op |-> "xdotool.type", x |-> 0, y |-> 0, raised |-> ~osOk],
                           [op |-> "pyautogui.write", x |-> 0, y |-> 0, raised |-> ~osOk]>>)

\* ScreenInteraction.press_key
press_key(osOk) == LowLevel(osOk, <<[op |-> "pyautogui.press", x |-> 0, y |-> 0, raised |-> ~osOk]>>)

\* ScreenInteraction.scroll
scroll(osOk) == LowLevel(osOk, <<[op |-> "pyautogui.scroll", x |-> 0, y |-> 0, raised |-> ~osOk]>>)

\* ScreenInteraction.drag (no bounds check; relative drag by the scaled offset)
drag(start_x, start_y, end_x, end_y, sc, osOk) ==
    LowLevel(osOk, <<[op |-> "pyautogui.drag",
                      x |-> Scale(end_x, sc) - Scale(start_x, sc),
                      y |-> Scale(end_y, sc) - Scale(start_y, sc), raised |-> ~osOk]>>)

\* ScreenInteraction.move_mouse
move_mouse(x, y, sc, osOk) ==
    LET adj_x == Scale(x, sc)
        adj_y == Scale(y, sc)
    IN IF validate_coordinates(adj_x, adj_y)
       THEN LowLevel(osOk, <<[op |-> "pyautogui.moveTo", x |-> adj_x, y |-> adj_y, raised |-> ~osOk]>>)
       ELSE LowLevel(FALSE, << >>)

\* ApplicationManager.launch_application
launch_application(osOk) ==
    LowLevel(osOk, <<[op |-> "subprocess.Popen", x |-> 0, y |-> 0, raised |-> ~osOk]>>)

\* ApplicationManager.close_application
close_application(app_name, apps, osOk) ==
    IF app_name \in apps
    THEN LowLevel(osOk, <<[op |-> "process.terminate", x |-> 0, y |-> 0, raised |-> ~osOk]>>)
    ELSE LowLevel(FALSE, << >>)

-----------------------------------------------------------------------------
(* components/controller.py: ActionResult and Controller._execute_action_internal *)

\* the absent value (None)
Null == [null |-> TRUE]

\* ActionResult(success, action_type, details, timestamp, error, confirmation_required)
ActionResult(success, action_type, details, error, confirmation_required) ==
    [success |-> success, action_type |-> action_type, details |-> details,
     error |-> error, confirmation_required |-> confirmation_required]

\* the keys the dispatch branch of a type reads with action[...]
RequiredAtDispatch(action_type) ==
    CASE action_type = T_click -> {"x", "y"}
      [] action_type = T_type -> {"text"}
      [] action_type = T_key_press -> {"key"}
      [] action_type = T_drag -> {"start_x", "start_y", "end_x", "end_y"}
      [] action_type = T_move_mouse -> {"x", "y"}
      [] action_type = T_launch_app -> {"app_name"}
      [] action_type = T_close_app -> {"app_name"}
      [] OTHER -> {}

DispatchTypes == {T_click, T_type, T_key_press, T_scroll, T_drag, T_move_mouse,
                  T_launch_app, T_close_app, T_wait}

\* the low-level operation the dispatch branch of a type calls
LowLevelFor(action_type, action, apps, sc, osOk) ==
    CASE action_type = T_click -> click(action["x"], action["y"], sc, osOk)
      [] action_type = T_type -> type_text(osOk)
      [] action_type = T_key_press -> press_key(osOk)
      [] action_type = T_scroll -> scroll(osOk)
      [] action_type = T_drag ->
            drag(action["start_x"], action["start_y"], action["end_x"],
                 action["end_y"], sc, osOk)
      [] action_type = T_move_mouse -> move_mouse(action["x"], action["y"], sc, osOk)
      [] action_type = T_launch_app -> launch_application(osOk)
      [] action_type = T_close_app -> close_application(action["app_name"], apps, osOk)
      [] action_type = T_wait ->
            LowLevel(TRUE, <<[op |-> "time.sleep", x |-> 0, y |-> 0, raised |-> FALSE]>>)

\* ApplicationManager.running_apps after the operation
AppsAfter(action_type, action, apps, ok) ==
    IF action_type = T_launch_app /\ ok THEN apps \cup {action["app_name"]}
    ELSE IF action_type = T_close_app /\ ok THEN apps \ {action["app_name"]}
    ELSE apps

\* the dispatch without the try/except and the success test: whatever the
\* operation did is reported as success
execute_action_internal_unchecked(action, apps, sc, osOk) ==
    LET action_type == Lower(Get(action, "type", << >>)) IN
    IF action_type \notin DispatchTypes
    THEN [result |-> ActionResult(FALSE, action_type, action,
                                  "Unknown action type", FALSE),
          events |-> << >>, apps |-> apps]
    ELSE IF ~(RequiredAtDispatch(action_type) \subseteq DOMAIN action)
    THEN [result |-> ActionResult(TRUE, action_type, action, "None", FALSE),
          events |-> << >>, apps |-> apps]
    ELSE LET ll == LowLevelFor(action_type, action, apps, sc, osOk) IN
         [result |-> ActionResult(TRUE, action_type, action, "None", FALSE),
          events |-> ll.events, apps |-> apps]

\* Controller._execute_action_internal: [result, events, apps]
execute_action_internal(action, apps, sc, osOk) ==
    LET action_type == Lower(Get(action, "type", << >>)) IN
    IF action_type \notin DispatchTypes
    THEN [result |-> ActionResult(FALSE, action_type, action,
                                  "Unknown action type", FALSE),
          events |-> << >>, apps |-> apps]
    ELSE IF ~(RequiredAtDispatch(action_type) \subseteq DOMAIN action)
    THEN [result |-> ActionResult(FALSE, action_type, action, "KeyError", FALSE),
          events |-> << >>, apps |-> apps]
    ELSE LET ll == LowLevelFor(action_type, action, apps, sc, osOk) IN
         [result |-> ActionResult(ll.ok, action_type, action,
                                  IF ll.ok THEN "None" ELSE "Action execution failed",
                                  FALSE),
          events |-> ll.events,
          apps |-> AppsAfter(action_type, action, apps, ll.ok)]

-----------------------------------------------------------------------------
(* The action dicts given to the validator and the controller *)

A_click ==
    [type |-> T_click,
     x |-> 50,
     y |-> 50]

A_click_upper ==
    [type |-> <<"C","l","i","c","k">>,
     x |-> 50,
     y |-> 50]

A_click_no_y ==
    [type |-> T_click,
     x |-> 50]

A_click_no_x ==
    [type |-> T_click,
     y |-> 50]

A_click_ok ==
    [type |-> T_click,
     x |-> 50,
     y |-> 50,
     target |-> <<"o","k">>]

A_click_delete ==
    [type |-> T_click,
     x |-> 50,
     y |-> 50,
     target |-> <<"D","e","l","e","t","e"," ","f","i","l","e">>]

A_click_remove ==
    [type |-> T_click,
     x |-> 50,
     y |-> 50,
     target |-> <<"r","e","m","o","v","e"," ","i","t","e","m">>]

A_click_rm ==
    [type |-> T_click,
     x |-> 50,
     y |-> 50,
     target |-> <<"r","m"," ","f","i","l","e">>]

A_click_del ==
    [type |-> T_click,
     x |-> 50,
     y |-> 50,
     target |-> <<"d","e","l"," ","x">>]

A_click_rm_rf ==
    [type |-> T_click,
     x |-> 50,
     y |-> 50,
     target |-> <<"r","m"," ","-","r","f"," ","t","m","p">>]

A_click_del_f ==
    [type |-> T_click,
     x |-> 50,
     y |-> 50,
     target |-> <<"d","e","l"," ","/","f"," ","a">>]

A_click_credit ==
    [type |-> T_click,
     x |-> 50,
     y |-> 50,
     target |-> <<"C","r","e","d","i","t"," ","C","a","r","d">>]

A_click_registry ==
    [type |-> T_click,
     x |-> 50,
     y |-> 50,
     target |-> <<"r","e","g","i","s","t","r","y">>]

A_click_no_y_delete ==
    [type |-> T_click,
     x |-> 50,
     target |-> <<"d","e","l","e","t","e">>]

A_scroll ==
    [type |-> T_scroll,
     direction |-> <<"d","o","w","n">>]

A_scroll_format ==
    [type |-> T_scroll,
     direction |-> <<"d","o","w","n">>,
     target |-> <<"F","o","r","m","a","t"," ","C",":"," ","n","o","w">>]

A_scroll_system32 ==
    [type |-> T_scroll,
     direction |-> <<"d","o","w","n">>,
     target |-> <<"s","y","s","t","e","m","3","2">>]

A_type_hello ==
    [type |-> T_type,
     text |-> <<"h","e","l","l","o">>]

A_type_upper ==
    [type |-> <<"T","Y","P","E">>,
     text |-> <<"h","e","l","l","o">>]

A_type_sudo ==
    [type |-> T_type,
     text |-> <<"s","u","d","o"," ","l","s">>]

A_type_admin ==
    [type |-> T_type,
     text |-> <<"A","d","m","i","n">>]

A_type_password ==
    [type |-> T_type,
     text |-> <<"m","y"," ","p","a","s","s","w","o","r","d">>]

A_type_no_text ==
    [type |-> T_type]

A_key_enter ==
    [type |-> T_key_press,
     key |-> <<"e","n","t","e","r">>]

A_key_missing ==
    [type |-> T_key_press]

A_drag ==
    [type |-> T_drag,
     start_x |-> 10,
     start_y |-> 10,
     end_x |-> 20,
     end_y |-> 20]

A_drag_partial ==
    [type |-> T_drag,
     start_x |-> 10]

A_file_delete_etc ==
    [type |-> T_file_operation,
     operation |-> <<"d","e","l","e","t","e">>,
     path |-> <<"/","e","t","c","/","p","a","s","s","w","d">>]

A_file_delete_docs ==
    [type |-> T_file_operation,
     operation |-> <<"d","e","l","e","t","e">>,
     path |-> <<"~","/","D","o","c","u","m","e","n","t","s","/","a",".","t","x","t">>]

A_file_copy ==
    [type |-> T_file_operation,
     operation |-> <<"c","o","p","y">>,
     path |-> <<"/","t","m","p","/","a">>]

A_system_ls ==
    [type |-> T_system_command,
     command |-> <<"l","s">>]

A_password_entry ==
    [type |-> T_password_entry,
     text |-> <<"x">>]

A_move_mouse ==
    [type |-> T_move_mouse,
     x |-> 50,
     y |-> 50]

A_launch_app ==
    [type |-> T_launch_app,
     app_name |-> <<"g","e","d","i","t">>]

A_close_app ==
    [type |-> T_close_app,
     app_name |-> <<"g","e","d","i","t">>]

A_wait ==
    [type |-> T_wait,
     duration |-> 1]

A_fly ==
    [type |-> <<"f","l","y">>,
     x |-> 50,
     y |-> 50]

A_no_type ==
    [x |-> 50,
     y |-> 50]

A_no_type_stop ==
    [x |-> 50,
     y |-> 50,
     stop_on_failure |-> TRUE]

A_key_enter_stop ==
    [type |-> T_key_press,
     key |-> <<"e","n","t","e","r">>,
     stop_on_failure |-> TRUE]

\* every action dict of the model (inputs of validate_action)
AllActions ==
    {A_click, A_click_upper, A_click_no_y, A_click_no_x, A_click_ok,
     A_click_delete, A_click_remove, A_click_rm, A_click_del,
     A_click_rm_rf, A_click_del_f, A_click_credit, A_click_registry,
     A_click_no_y_delete, A_scroll, A_scroll_format, A_scroll_system32,
     A_type_hello, A_type_upper, A_type_sudo, A_type_admin,
     A_type_password, A_type_no_text, A_key_enter, A_key_missing, A_drag,
     A_drag_partial, A_file_delete_etc, A_file_delete_docs, A_file_copy,
     A_system_ls, A_password_entry, A_move_mouse, A_launch_app,
     A_close_app, A_wait, A_fly, A_no_type, A_no_type_stop,
     A_key_enter_stop}

\* the action dicts given to Controller.execute_action
CtlActions ==
    {A_click, A_click_no_y, A_click_no_x, A_type_no_text, A_key_missing,
     A_file_delete_etc, A_system_ls, A_launch_app, A_fly, A_no_type_stop,
     A_key_enter, A_drag_partial}

\* the action dicts that make up the lists given to execute_action_sequence
SeqActions ==
    {A_no_type_stop, A_key_enter}

-----------------------------------------------------------------------------
(* State *)

VARIABLES
    \* Controller
    emergency_stop,             \* Controller.emergency_stop
    running,                    \* Controller.running
    action_history,             \* Controller.action_history
    pressed_keys,               \* Controller._pressed_keys (listener thread)
    running_apps,               \* ApplicationManager.running_apps
    \* CONFIG.controller and ScreenInteraction.scaling_factor
    safe_mode, confirm_sensitive_actions, scaling_factor,
    \* the main thread inside Controller.execute_action
    pc,                         \* where the call stands
    cur,                        \* the action argument
    verdict,                    \* what validate_action returned
    gate,                       \* what request_confirmation did in this call
    channel,                    \* what the confirmation channel did
    result,                     \* the ActionResult being returned
    events,                     \* OS-level calls issued by this call
    \* the main thread inside Controller.execute_action_sequence
    seq_on, seq_rest, seq_results,
    \* RealDesktopAgent.execute_user_command
    e_pc,                       \* where the run stands
    steps,                      \* the plan
    idx, retry_count,           \* loop variables
    successful_steps, failed_steps,
    e_ret,                      \* the return value
    handler_calls,              \* invocations of handle_complex_open_command
    step_events,                \* OS-level calls issued by the last invocation
    \* utils/task_tracker.py TaskTracker and its task_logs directory
    tracker, files, summaries,
    now                         \* the clock, in seconds

ctlVars == <<emergency_stop, running, action_history, pressed_keys, running_apps>>
cfgVars == <<safe_mode, confirm_sensitive_actions, scaling_factor>>
callVars == <<pc, cur, verdict, gate, channel, result, events>>
seqVars == <<seq_on, seq_rest, seq_results>>
engVars == <<e_pc, steps, idx, retry_count, successful_steps, failed_steps,
             e_ret, handler_calls, step_events>>
trkVars == <<tracker, files, summaries, now>>
vars == <<ctlVars, cfgVars, callVars, seqVars, engVars, trkVars>>

Keys == {"ctrl", "shift", "q"}

\* Controller.__init__ with CONFIG as loaded
InitController ==
    /\ emergency_stop = FALSE
    /\ running = FALSE
    /\ action_history = << >>
    /\ pressed_keys = {}
    /\ running_apps = {}
    /\ safe_mode \in BOOLEAN
    /\ confirm_sensitive_actions \in BOOLEAN
    /\ scaling_factor = <<1, 1>>
    /\ pc = "idle"
    /\ cur = Null
    /\ verdict = Null
    /\ gate = "not_asked"
    /\ channel = "none"
    /\ result = Null
    /\ events = << >>
    /\ seq_on = FALSE
    /\ seq_rest = << >>
    /\ seq_results = << >>

-----------------------------------------------------------------------------
(* The emergency-stop listener thread: Controller._setup_emergency_stop *)

\* on_key_combination: Ctrl+Shift held and the key is q
StopCombination(key, pressed) ==
    key = "q" /\ "ctrl" \in pressed /\ "shift" \in pressed

\* on_press(key)
on_press(key) ==
    /\ pressed_keys' = pressed_keys \cup {key}
    /\ emergency_stop' =
          (IF StopCombination(key, pressed_keys') THEN TRUE ELSE emergency_stop)
    /\ UNCHANGED <<running, action_history, running_apps>>
    /\ UNCHANGED <<cfgVars, callVars, seqVars, engVars, trkVars>>

\* on_release that clears the flag when q is let go
on_release_clears_stop(key) ==
    /\ key \in pressed_keys
    /\ pressed_keys' = pressed_keys \ {key}
    /\ emergency_stop' = (IF key = "q" THEN FALSE ELSE emergency_stop)
    /\ UNCHANGED <<running, action_history, running_apps>>
    /\ UNCHANGED <<cfgVars, callVars, seqVars, engVars, trkVars>>

\* on_release(key)
on_release(key) ==
    /\ key \in pressed_keys
    /\ pressed_keys' = pressed_keys \ {key}
    /\ UNCHANGED <<emergency_stop, running, action_history, running_apps>>
    /\ UNCHANGED <<cfgVars, callVars, seqVars, engVars, trkVars>>

-----------------------------------------------------------------------------
(* Controller.execute_action, one step per stage of the pipeline *)

\* actions of a list that validation would let through to the history
Appending(actions) ==
    Cardinality({i \in 1..Len(actions) :
                    validate_action(actions[i], safe_mode).is_valid})

\* entry of execute_action without the emergency-stop check
Enter_no_stop_check(action) ==
    /\ cur' = action
    /\ verdict' = Null
    /\ gate' = "not_asked"
    /\ channel' = "none"
    /\ events' = << >>
    /\ result' = Null
    /\ pc' = "validate"

\* entry of execute_action: the emergency-stop check
Enter(action) ==
    /\ cur' = action
    /\ verdict' = Null
    /\ gate' = "not_asked"
    /\ channel' = "none"
    /\ events' = << >>
    /\ IF emergency_stop
       THEN /\ result' = ActionResult(FALSE, Get(action, "type", T_unknown), action,
                                      "Emergency stop activated", FALSE)
            /\ pc' = "return"
       ELSE /\ result' = Null
            /\ pc' = "validate"

\* Controller.execute_action(action), called by the main cycle
execute_action(action) ==
    /\ pc = "idle"
    /\ Appending(<<action>>) + Len(action_history) <= MaxHistory
    /\ Enter(action)
    /\ UNCHANGED <<ctlVars, cfgVars, seqVars, engVars, trkVars>>

\* the validation stage going on to the dispatch whatever needs_confirmation is
Validate_skips_gate ==
    /\ pc = "validate"
    /\ LET v == validate_action(cur, safe_mode) IN
       /\ verdict' = v
       /\ IF ~v.is_valid
          THEN /\ result' = ActionResult(FALSE, Get(cur, "type", T_unknown), cur,
                                         v.error, FALSE)
               /\ pc' = "return"
          ELSE /\ result' = result
               /\ pc' = "dispatch"
    /\ UNCHANGED <<cur, gate, channel, events>>
    /\ UNCHANGED <<ctlVars, cfgVars, seqVars, engVars, trkVars>>

\* is_valid, error_msg, needs_confirmation = self.validator.validate_action(action)
Validate ==
    /\ pc = "validate"
    /\ LET v == validate_action(cur, safe_mode) IN
       /\ verdict' = v
       /\ IF ~v.is_valid
          THEN /\ result' = ActionResult(FALSE, Get(cur, "type", T_unknown), cur,
                                         v.error, FALSE)
               /\ pc' = "return"
          ELSE /\ result' = result
               /\ pc' = IF v.requires_confirmation THEN "confirm" ELSE "dispatch"
    /\ UNCHANGED <<cur, gate, channel, events>>
    /\ UNCHANGED <<ctlVars, cfgVars, seqVars, engVars, trkVars>>

\* the confirmation stage going on to the dispatch after a denial
Confirm_denied_proceeds ==
    /\ pc = "confirm"
    /\ \E ch \in (IF confirm_sensitive_actions THEN Channels ELSE {"none"}) :
          LET answer == request_confirmation(confirm_sensitive_actions, ch) IN
          /\ channel' = ch
          /\ gate' = answer
          /\ result' = result
          /\ CASE answer \in {"approved", "denied"} -> pc' = "dispatch"
               [] answer = "raised" -> pc' = "raised"
               [] answer = "blocked" -> pc' = "blocked"
    /\ UNCHANGED <<cur, verdict, events>>
    /\ UNCHANGED <<ctlVars, cfgVars, seqVars, engVars, trkVars>>

\* if needs_confirmation: self.confirmation.request_confirmation(...)
Confirm ==
    /\ pc = "confirm"
    /\ \E ch \in (IF confirm_sensitive_actions THEN Channels ELSE {"none"}) :
          LET answer == request_confirmation(confirm_sensitive_actions, ch) IN
          /\ channel' = ch
          /\ gate' = answer
          /\ CASE answer = "approved" -> pc' = "dispatch" /\ result' = result
               [] answer = "denied" ->
                     /\ pc' = "return"
                     /\ result' = ActionResult(FALSE, Get(cur, "type", T_unknown),
                                               cur, "User denied confirmation", TRUE)
               [] answer = "raised" -> pc' = "raised" /\ result' = result
               [] answer = "blocked" -> pc' = "blocked" /\ result' = result
    /\ UNCHANGED <<cur, verdict, events>>
    /\ UNCHANGED <<ctlVars, cfgVars, seqVars, engVars, trkVars>>

\* result = self._execute_action_internal(...); self.action_history.append(result)
Dispatch ==
    /\ pc = "dispatch"
    /\ \E osOk \in BOOLEAN :
          LET r == execute_action_internal(cur, running_apps, scaling_factor, osOk) IN
          /\ result' = r.result
          /\ events' = r.events
          /\ running_apps' = r.apps
          /\ action_history' = Append(action_history, r.result)
    /\ pc' = "return"
    /\ UNCHANGED <<emergency_stop, running, pressed_keys>>
    /\ UNCHANGED <<cur, verdict, gate, channel>>
    /\ UNCHANGED <<cfgVars, seqVars, engVars, trkVars>>

\* the frame of the call is left: by return, or by the exception of the gate
ClearCall ==
    /\ cur' = Null
    /\ verdict' = Null
    /\ gate' = "not_asked"
    /\ channel' = "none"
    /\ result' = Null
    /\ events' = << >>

\* execute_action returns to the main cycle
Return ==
    /\ pc \in {"return", "raised"}
    /\ ~seq_on
    /\ pc' = "idle"
    /\ ClearCall
    /\ UNCHANGED <<ctlVars, cfgVars, seqVars, engVars, trkVars>>

-----------------------------------------------------------------------------
(* Controller.execute_action_sequence *)

\* the lists of actions given to execute_action_sequence
RECURSIVE ListsUpTo(_, _)
ListsUpTo(S, n) ==
    IF n = 0 THEN {<< >>}
    ELSE LET shorter == ListsUpTo(S, n - 1) IN
         shorter \cup {Append(l, a) : l \in shorter, a \in S}

SeqInputs == ListsUpTo(SeqActions, MaxSeqLen) \ {<< >>}

\* execute_action_sequence(actions): results = []
execute_action_sequence(actions) ==
    /\ pc = "idle"
    /\ Appending(actions) + Len(action_history) <= MaxHistory
    /\ seq_on' = TRUE
    /\ seq_rest' = actions
    /\ seq_results' = << >>
    /\ pc' = "seq_loop"
    /\ UNCHANGED <<cur, verdict, gate, channel, result, events>>
    /\ UNCHANGED <<ctlVars, cfgVars, engVars, trkVars>>

\* the head of the for loop: the stop check, then self.execute_action(action)
SeqLoop ==
    /\ pc = "seq_loop"
    /\ IF seq_rest = << >> \/ emergency_stop
       THEN /\ pc' = "seq_done"
            /\ UNCHANGED <<cur, verdict, gate, channel, result, events, seq_rest>>
       ELSE /\ seq_rest' = Tail(seq_rest)
            /\ Enter(Head(seq_rest))
    /\ UNCHANGED <<seq_on, seq_results>>
    /\ UNCHANGED <<ctlVars, cfgVars, engVars, trkVars>>

\* the end of the loop body without the break on stop_on_failure
SeqCollect_never_breaks ==
    /\ pc = "return"
    /\ seq_on
    /\ seq_results' = Append(seq_results, result)
    /\ pc' = "seq_loop"
    /\ ClearCall
    /\ UNCHANGED <<seq_on, seq_rest>>
    /\ UNCHANGED <<ctlVars, cfgVars, engVars, trkVars>>

\* results.append(result); break on a failure that carries stop_on_failure
SeqCollect ==
    /\ pc = "return"
    /\ seq_on
    /\ seq_results' = Append(seq_results, result)
    /\ pc' = IF ~result.success /\ Get(cur, "stop_on_failure", FALSE)
             THEN "seq_done" ELSE "seq_loop"
    /\ ClearCall
    /\ UNCHANGED <<seq_on, seq_rest>>
    /\ UNCHANGED <<ctlVars, cfgVars, engVars, trkVars>>

\* an exception of the gate leaves execute_action_sequence as well
SeqRaised ==
    /\ pc = "raised"
    /\ seq_on
    /\ seq_on' = FALSE
    /\ seq_rest' = << >>
    /\ seq_results' = << >>
    /\ pc' = "idle"
    /\ ClearCall
    /\ UNCHANGED <<ctlVars, cfgVars, engVars, trkVars>>

\* return results
SeqReturn ==
    /\ pc = "seq_done"
    /\ seq_on' = FALSE
    /\ seq_rest' = << >>
    /\ seq_results' = << >>
    /\ pc' = "idle"
    /\ UNCHANGED <<cur, verdict, gate, channel, result, events>>
    /\ UNCHANGED <<ctlVars, cfgVars, engVars, trkVars>>

-----------------------------------------------------------------------------
(* The other Controller operations *)

E_ok ==
    [bbox |-> [x |-> 40, y |-> 40, width |-> 20, height |-> 21],
     text |-> <<"O","K">>]
E_delete ==
    [bbox |-> [x |-> 10, y |-> 10, width |-> 20, height |-> 20],
     text |-> <<"D","e","l","e","t","e">>]
E_no_text ==
    [bbox |-> [x |-> 90, y |-> 70, width |-> 40, height |-> 40]]

Elements == {E_ok, E_no_text}

\* Controller.get_screen_element_coordinates
get_screen_element_coordinates(element) ==
    LET bbox == element.bbox IN
    <<bbox.x + (bbox.width \div 2), bbox.y + (bbox.height \div 2)>>

\* the action dict click_element builds
ElementAction(element) ==
    LET xy == get_screen_element_coordinates(element) IN
    [type |-> T_click, x |-> xy[1], y |-> xy[2],
     target_element |-> Get(element, "text", T_unknown)]

\* Controller.click_element(element)
click_element(element) ==
    /\ pc = "idle"
    /\ Appending(<<ElementAction(element)>>) + Len(action_history) <= MaxHistory
    /\ Enter(ElementAction(element))
    /\ UNCHANGED <<ctlVars, cfgVars, seqVars, engVars, trkVars>>

\* Controller.start
start ==
    /\ pc = "idle"
    /\ running' = TRUE
    /\ UNCHANGED <<emergency_stop, action_history, pressed_keys, running_apps>>
    /\ UNCHANGED <<cfgVars, callVars, seqVars, engVars, trkVars>>

\* Controller.stop
stop ==
    /\ pc = "idle"
    /\ running' = FALSE
    /\ UNCHANGED <<emergency_stop, action_history, pressed_keys, running_apps>>
    /\ UNCHANGED <<cfgVars, callVars, seqVars, engVars, trkVars>>

\* Controller.reset_emergency_stop, called by the operator between tasks
reset_emergency_stop ==
    /\ pc = "idle"
    /\ e_pc \in {"idle", "done"}
    /\ emergency_stop' = FALSE
    /\ UNCHANGED <<running, action_history, pressed_keys, running_apps>>
    /\ UNCHANGED <<cfgVars, callVars, seqVars, engVars, trkVars>>

\* Controller.get_action_history: a copy is returned, nothing is written
get_action_history ==
    /\ pc = "idle"
    /\ UNCHANGED <<ctlVars, cfgVars, callVars, seqVars, engVars, trkVars>>

\* Controller.clear_action_history
clear_action_history ==
    /\ pc = "idle"
    /\ action_history' = << >>
    /\ UNCHANGED <<emergency_stop, running, pressed_keys, running_apps>>
    /\ UNCHANGED <<cfgVars, callVars, seqVars, engVars, trkVars>>

-----------------------------------------------------------------------------
(* utils/task_tracker.py: TaskTracker *)

\* None as current_session_id
NoSession == << >>

\* f"task_{timestamp}" with a timestamp of one-second resolution
SessionId(t) == <<"task", t>>

\* TaskTracker.__init__ and TaskTracker._reset
EmptyTracker ==
    [current_session_id |-> NoSession, current_command |-> << >>,
     current_steps |-> << >>, completed_steps |-> << >>, failed_steps |-> << >>]

\* TaskTracker._save_state: the task_logs directory afterwards.
\* diskOk = FALSE: open() or json.dump raises, which is logged and swallowed.
save_state(trk, fs, summary, diskOk) ==
    IF trk.current_session_id = NoSession \/ ~diskOk THEN fs
    ELSE LET data == [session_id |-> trk.current_session_id,
                      command |-> trk.current_command,
                      total_steps |-> Len(trk.current_steps),
                      steps |-> trk.current_steps,
                      completed_steps |-> trk.completed_steps,
                      failed_steps |-> trk.failed_steps,
                      summary |-> summary]
         IN [f \in (DOMAIN fs) \cup {trk.current_session_id} |->
                IF f = trk.current_session_id THEN data ELSE fs[f]]

\* TaskTracker.start_new_task: [tracker, files]
start_new_task(trk, fs, t, command, stepList, diskOk) ==
    LET started == [current_session_id |-> SessionId(t), current_command |-> command,
                    current_steps |-> stepList, completed_steps |-> << >>,
                    failed_steps |-> << >>]
    IN [tracker |-> started, files |-> save_state(started, fs, Null, diskOk)]

\* mark_step_complete that keeps the outcome in memory only
mark_step_complete_unsaved(trk, fs, step_idx, step_text, success, diskOk) ==
    IF trk.current_session_id = NoSession THEN [tracker |-> trk, files |-> fs]
    ELSE [tracker |-> IF success
                      THEN [trk EXCEPT !.completed_steps =
                                          Append(@, <<step_idx, step_text>>)]
                      ELSE [trk EXCEPT !.failed_steps =
                                          Append(@, <<step_idx, step_text>>)],
          files |-> fs]

\* mark_step_complete that records the 1-based number of the step
mark_step_complete_one_based(trk, fs, step_idx, step_text, success, diskOk) ==
    IF trk.current_session_id = NoSession THEN [tracker |-> trk, files |-> fs]
    ELSE LET marked ==
                 IF success
                 THEN [trk EXCEPT !.completed_steps =
                                     Append(@, <<step_idx + 1, step_text>>)]
                 ELSE [trk EXCEPT !.failed_steps =
                                     Append(@, <<step_idx + 1, step_text>>)]
         IN [tracker |-> marked, files |-> save_state(marked, fs, Null, diskOk)]

\* TaskTracker.mark_step_complete: [tracker, files]
mark_step_complete(trk, fs, step_idx, step_text, success, diskOk) ==
    IF trk.current_session_id = NoSession THEN [tracker |-> trk, files |-> fs]
    ELSE LET marked ==
                 IF success
                 THEN [trk EXCEPT !.completed_steps =
                                     Append(@, <<step_idx, step_text>>)]
                 ELSE [trk EXCEPT !.failed_steps =
                                     Append(@, <<step_idx, step_text>>)]
         IN [tracker |-> marked, files |-> save_state(marked, fs, Null, diskOk)]

\* completed / total as the pair <<completed, total>>; 0 when there is no step
CompletionRate(completed, total) ==
    IF total > 0 THEN <<completed, total>> ELSE <<0, 1>>

\* rate > 0.75
AtLeastThreeQuarters_strict(rate) == 4 * rate[1] > 3 * rate[2]

\* rate >= 0.75
AtLeastThreeQuarters(rate) == 4 * rate[1] >= 3 * rate[2]

\* TaskTracker.complete_task: [tracker, files, summary]
complete_task(trk, fs, success, diskOk) ==
    IF trk.current_session_id = NoSession
    THEN [tracker |-> trk, files |-> fs, summary |-> Null]
    ELSE LET summary ==
                 [session_id |-> trk.current_session_id,
                  command |-> trk.current_command,
                  success |-> success,
                  total_steps |-> Len(trk.current_steps),
                  completed_steps |-> Len(trk.completed_steps),
                  failed_steps |-> Len(trk.failed_steps),
                  completion_rate |->
                      CompletionRate(Len(trk.completed_steps),
                                     Len(trk.current_steps))]
         IN [tracker |-> EmptyTracker,
             files |-> save_state(trk, fs, summary, diskOk),
             summary |-> summary]

InitTracker ==
    /\ tracker = EmptyTracker
    /\ files = << >>
    /\ summaries = << >>
    /\ now = 1

-----------------------------------------------------------------------------
(* real_desktop_agent.py: RealDesktopAgent.execute_user_command *)

max_retries == 2

\* Controller.execute_action run to its end by a caller on the main thread:
\* [status, success, events, appended, apps]
ControllerCall(action, stopped, safeMode, confirmSensitive, ch, apps, sc, osOk) ==
    LET v == validate_action(action, safeMode)
        answer == IF v.is_valid /\ v.requires_confirmation
                  THEN request_confirmation(confirmSensitive, ch) ELSE "approved"
        r == execute_action_internal(action, apps, sc, osOk)
        failed == [status |-> "returned", success |-> FALSE, events |-> << >>,
                   appended |-> << >>, apps |-> apps]
    IN IF stopped \/ ~v.is_valid \/ answer = "denied" THEN failed
       ELSE IF answer \in {"raised", "blocked"}
       THEN [failed EXCEPT !.status = answer]
       ELSE [status |-> "returned", success |-> r.result.success,
             events |-> r.events, appended |-> <<r.result>>, apps |-> r.apps]

\* What one invocation of handle_complex_open_command does:
\*   open_application  self.open_application('google-chrome')
\*   search            search_in_current_context: press_key and type_text
\*   ai_click          try_intelligent_execution -> execute_ai_action ->
\*                     self.controller.execute_action({"type": "click", ...})
\*   no_action         the handler fails before it acts (no screen, no answer)
HandlerPaths == {"open_application", "search", "ai_click", "no_action"}

A_chrome == [type |-> T_launch_app,
             app_name |-> <<"g","o","o","g","l","e","-","c","h","r","o","m","e">>]

\* handle_complex_open_command(step): [status, success, events, appended, apps]
handle_complex_open_command(path, stopped, safeMode, confirmSensitive, ch, apps, sc, osOk) ==
    CASE path = "open_application" ->
            LET ll == launch_application(osOk) IN
            [status |-> "returned", success |-> ll.ok, events |-> ll.events,
             appended |-> << >>,
             apps |-> AppsAfter(T_launch_app, A_chrome, apps, ll.ok)]
      [] path = "search" ->
            LET k == press_key(osOk)
                t == type_text(osOk)
            IN [status |-> "returned", success |-> osOk,
                events |-> IF k.ok THEN k.events \o t.events \o k.events
                           ELSE k.events \o k.events,
                appended |-> << >>, apps |-> apps]
      [] path = "ai_click" ->
            LET c == ControllerCall(A_click, stopped, safeMode, confirmSensitive,
                                    ch, apps, sc, osOk)
            IN IF c.status = "raised"
               THEN [c EXCEPT !.status = "returned", !.success = FALSE]
               ELSE c
      [] path = "no_action" ->
            [status |-> "returned", success |-> FALSE, events |-> << >>,
             appended |-> << >>, apps |-> apps]

\* the exhaustion test allowing one attempt more
RetriesExhausted_one_more(retries) == retries > max_retries + 1

\* if retry_count > max_retries (after retry_count += 1)
RetriesExhausted(retries) == retries > max_retries

\* the critical test naming only the first step
IsCritical_first_only(i, total_steps) == i <= 1

\* if idx <= 2 or idx >= total_steps - 1
IsCritical(i, total_steps) == i <= 2 \/ i >= total_steps - 1

\* the text of the i-th plan step
StepText(i) == <<"step", i>>

\* the task_logs directory is writable during a run of the engine
EngineDisk == {TRUE}

InitEngine ==
    /\ e_pc = "idle"
    /\ steps = << >>
    /\ idx = 0
    /\ retry_count = 0
    /\ successful_steps = 0
    /\ failed_steps = 0
    /\ e_ret = "none"
    /\ handler_calls = 0
    /\ step_events = << >>

\* execute_user_command(command) up to the head of the for loop
execute_user_command(n) ==
    /\ e_pc = "idle"
    /\ pc = "idle"
    /\ \E diskOk \in EngineDisk :
          LET plan == [i \in 1..n |-> StepText(i)]
              st == start_new_task(tracker, files, now, <<"command">>, plan, diskOk)
          IN /\ steps' = plan
             /\ tracker' = st.tracker
             /\ files' = st.files
    /\ idx' = 1
    /\ retry_count' = 0
    /\ successful_steps' = 0
    /\ failed_steps' = 0
    /\ e_pc' = "attempt"
    /\ UNCHANGED <<e_ret, handler_calls, step_events, summaries, now>>
    /\ UNCHANGED <<ctlVars, cfgVars, callVars, seqVars>>

\* a for loop whose end returns without the completion report
Advance_without_report(i) == IF i < Len(steps) THEN "attempt" ELSE "done"

\* the for loop moves to the next step, or ends
Advance(i) == IF i < Len(steps) THEN "attempt" ELSE "report"

\* one pass of the while loop: an invocation of the handler and what follows it
Attempt ==
    /\ e_pc = "attempt"
    /\ \E path \in HandlerPaths, osOk \in BOOLEAN, diskOk \in EngineDisk,
          ch \in (IF safe_mode THEN {"none"} ELSE Channels) :
       \E h \in {handle_complex_open_command(path, emergency_stop, safe_mode,
                    confirm_sensitive_actions, ch, running_apps,
                    scaling_factor, osOk)} :
       \E mk \in {mark_step_complete(tracker, files, idx - 1, steps[idx],
                                     h.success, diskOk)} :
          LET total_steps == Len(steps)
              exhausted == RetriesExhausted(retry_count + 1)
              ct == complete_task(mk.tracker, mk.files, FALSE, diskOk)
          IN /\ Len(action_history) + Len(h.appended) <= MaxHistory
             /\ handler_calls' = handler_calls + 1
             /\ step_events' = h.events
             /\ running_apps' = h.apps
             /\ action_history' = action_history \o h.appended
             /\ now' = now + 1
             /\ IF h.status = "blocked"
                THEN /\ e_pc' = "blocked"
                     /\ UNCHANGED <<idx, retry_count, successful_steps,
                                    failed_steps, e_ret, tracker, files, summaries>>
                ELSE IF h.success
                THEN /\ successful_steps' = successful_steps + 1
                     /\ tracker' = mk.tracker
                     /\ files' = mk.files
                     /\ e_pc' = Advance(idx)
                     /\ idx' = IF idx < total_steps THEN idx + 1 ELSE idx
                     /\ retry_count' = 0
                     /\ UNCHANGED <<failed_steps, e_ret, summaries>>
                ELSE IF ~exhausted
                THEN /\ retry_count' = retry_count + 1
                     /\ UNCHANGED <<e_pc, idx, successful_steps, failed_steps,
                                    e_ret, tracker, files, summaries>>
                ELSE IF IsCritical(idx, total_steps)
                THEN /\ failed_steps' = failed_steps + 1
                     /\ retry_count' = retry_count + 1
                     /\ tracker' = ct.tracker
                     /\ files' = ct.files
                     /\ summaries' = Append(summaries, ct.summary)
                     /\ e_ret' = "False"
                     /\ e_pc' = "done"
                     /\ UNCHANGED <<idx, successful_steps>>
                ELSE /\ failed_steps' = failed_steps + 1
                     /\ tracker' = mk.tracker
                     /\ files' = mk.files
                     /\ e_pc' = Advance(idx)
                     /\ idx' = IF idx < total_steps THEN idx + 1 ELSE idx
                     /\ retry_count' = 0
                     /\ UNCHANGED <<successful_steps, e_ret, summaries>>
    /\ UNCHANGED steps
    /\ UNCHANGED <<emergency_stop, running, pressed_keys>>
    /\ UNCHANGED <<cfgVars, callVars, seqVars>>

\* the completion report after the for loop
Report ==
    /\ e_pc = "report"
    /\ \E diskOk \in EngineDisk :
          LET total_steps == Len(steps)
              completion_rate == <<successful_steps, total_steps>>
              success == IF successful_steps = total_steps THEN TRUE
                         ELSE AtLeastThreeQuarters(completion_rate)
              ct == complete_task(tracker, files, success, diskOk)
          IN /\ tracker' = ct.tracker
             /\ files' = ct.files
             /\ summaries' = Append(summaries, ct.summary)
             /\ e_ret' = IF success THEN "True" ELSE "False"
    /\ e_pc' = "done"
    /\ UNCHANGED <<steps, idx, retry_count, successful_steps, failed_steps,
                   handler_calls, step_events, now>>
    /\ UNCHANGED <<ctlVars, cfgVars, callVars, seqVars>>

-----------------------------------------------------------------------------
(* Specifications *)

Init == InitController /\ InitEngine /\ InitTracker

\* the Controller under its main cycle and the listener thread
Next ==
    \/ \E key \in Keys : on_press(key)
    \/ \E key \in Keys : on_release(key)
    \/ \E action \in CtlActions : execute_action(action)
    \/ Validate
    \/ Confirm
    \/ Dispatch
    \/ Return
    \/ \E actions \in SeqInputs : execute_action_sequence(actions)
    \/ SeqLoop
    \/ SeqCollect
    \/ SeqRaised
    \/ SeqReturn
    \/ \E element \in Elements : click_element(element)
    \/ start
    \/ stop
    \/ reset_emergency_stop
    \/ get_action_history
    \/ clear_action_history

Spec == Init /\ [][Next]_vars

\* the agent as started by RealDesktopAgent.start: CONFIG holds its defaults
InitEngineRun ==
    /\ Init
    /\ safe_mode = TRUE
    /\ confirm_sensitive_actions = TRUE

\* one run of execute_user_command beside the listener thread
NextEngine ==
    \/ \E key \in Keys : on_press(key)
    \/ \E key \in Keys : on_release(key)
    \/ \E n \in 1..MaxSteps : execute_user_command(n)
    \/ Attempt
    \/ Report
    \/ reset_emergency_stop

SpecEngine == InitEngineRun /\ [][NextEngine]_vars

\* validate_action as a function of the action dict and CONFIG.controller.safe_mode
InitValidate ==
    /\ emergency_stop = FALSE
    /\ running = FALSE
    /\ action_history = << >>
    /\ pressed_keys = {}
    /\ running_apps = {}
    /\ safe_mode \in BOOLEAN
    /\ confirm_sensitive_actions \in BOOLEAN
    /\ scaling_factor = <<1, 1>>
    /\ pc = "proposed"
    /\ cur \in AllActions
    /\ verdict = Null
    /\ gate = "not_asked"
    /\ channel = "none"
    /\ result = Null
    /\ events = << >>
    /\ seq_on = FALSE
    /\ seq_rest = << >>
    /\ seq_results = << >>
    /\ InitEngine
    /\ InitTracker

\* self.validator.validate_action(action)
ValidateOnly ==
    /\ pc = "proposed"
    /\ verdict' = validate_action(cur, safe_mode)
    /\ pc' = "validated"
    /\ UNCHANGED <<cur, gate, channel, result, events>>
    /\ UNCHANGED <<ctlVars, cfgVars, seqVars, engVars, trkVars>>

NextValidate == ValidateOnly

SpecValidate == InitValidate /\ [][NextValidate]_vars

-----------------------------------------------------------------------------
(* Properties *)

\* the safety level of an action's type; -1 for a type without a level
SafetyLevelOf(action) ==
    LET action_type == Lower(Get(action, "type", << >>)) IN
    IF action_type \in DOMAIN ACTION_SAFETY_LEVELS
    THEN ACTION_SAFETY_LEVELS[action_type] ELSE -1

\* a call of execute_action starts in this step
CallStarts == cur = Null /\ cur' # Null

\* C1: a call of execute_action that starts while emergency_stop is true goes
\* straight to its return with success=false: it is not validated, the
\* confirmation gate is not asked, no OS-level call is issued and nothing is
\* appended to the history.
C1_StoppedCallFails ==
    [][(emergency_stop /\ CallStarts) =>
          /\ pc' = "return"
          /\ result' # Null
          /\ ~result'.success
          /\ result'.error = "Emergency stop activated"
          /\ verdict' = Null
          /\ gate' = "not_asked"
          /\ events' = << >>
          /\ action_history' = action_history]_vars

\* a call made with the flag set and the key combination long released has returned
C1_Witness ==
    /\ pc = "return"
    /\ emergency_stop
    /\ pressed_keys = {}
    /\ cur = A_click
    /\ result # Null
    /\ result.error = "Emergency stop activated"

\* C2: in execute_user_command no step handler is invoked while the
\* emergency-stop flag is set (the flag is consulted before every step and
\* every retry, and the remaining steps are aborted).
C2_NoStepWhileStopped ==
    [][emergency_stop => handler_calls' = handler_calls]_vars

\* C3: once emergency_stop is true it stays true in every step other than
\* reset_emergency_stop.
C3_StopPersists ==
    [][(emergency_stop /\ ~emergency_stop') => reset_emergency_stop]_vars

\* the flag is still set after the keys were released and a whole call was made
C3_Witness ==
    /\ emergency_stop
    /\ pressed_keys = {}
    /\ running
    /\ pc = "return"
    /\ Len(action_history) = 1

\* C4: an action of safety level >= 3 stands at the dispatch step only after
\* the confirmation gate was asked in the same call and answered Approved.
C4_Level3DispatchApproved ==
    (pc = "dispatch" /\ SafetyLevelOf(cur) >= 3) => gate = "approved"

\* a system_command without any sensitive keyword stands at the dispatch step
C4_Witness ==
    /\ pc = "dispatch"
    /\ cur = A_system_ls
    /\ safe_mode
    /\ channel = "dialog_yes"
    /\ gate = "approved"

\* C5: every action that passes validation and whose type has safety level
\* >= 3 gets requires_confirmation = true, for both values of safe_mode.
C5_Level3RequiresConfirmation ==
    (pc = "validated" /\ verdict.is_valid /\ SafetyLevelOf(cur) >= 3)
        => verdict.requires_confirmation

\* a file_operation without any sensitive keyword was validated in safe mode
C5_Witness ==
    /\ pc = "validated"
    /\ cur = A_file_copy
    /\ safe_mode
    /\ verdict.is_valid
    /\ verdict.requires_confirmation

\* the sensitive list as the specification gives it
SpecKeywords == <<
    <<"d","e","l","e","t","e">>,
    <<"r","e","m","o","v","e">>,
    <<"f","o","r","m","a","t">>,
    <<"r","m">>,
    <<"d","e","l">>,
    <<"s","u","d","o">>,
    <<"a","d","m","i","n">>,
    <<"p","a","s","s","w","o","r","d">>,
    <<"c","r","e","d","i","t"," ","c","a","r","d">>,
    <<"s","y","s","t","e","m","3","2">>,
    <<"r","e","g","i","s","t","r","y">>,
    <<"r","m"," ","-","r","f">>,
    <<"d","e","l"," ","/","f">>,
    <<"f","o","r","m","a","t"," ","c",":">> >>

\* some target or parameter text of the action contains, without regard to
\* case, a keyword of the list
TextHasKeyword(action, keywords) ==
    \E k \in (DOMAIN action) \ (IntKeys \cup BoolKeys \cup {"type"}) :
        \E i \in 1..Len(keywords) : Contains(Lower(action[k]), keywords[i])

\* C6 as stated: with the list delete, remove, format, rm, del, sudo, admin,
\* password, credit card, system32, registry, rm -rf, del /f, format c:
C6_SpecListForcesConfirmation ==
    (pc = "validated" /\ verdict.is_valid /\ TextHasKeyword(cur, SpecKeywords))
        => verdict.requires_confirmation

\* C6: every supported, well-formed action whose target or parameter text
\* contains, without regard to case, a keyword of SENSITIVE_KEYWORDS gets
\* requires_confirmation = true, also at safety level 0 with safe_mode on.
C6_SensitiveForcesConfirmation ==
    (pc = "validated" /\ verdict.is_valid
        /\ TextHasKeyword(cur, SENSITIVE_KEYWORDS))
        => verdict.requires_confirmation

\* a level-0 click on "Delete file" was validated in safe mode
C6_Witness ==
    /\ pc = "validated"
    /\ cur = A_click_delete
    /\ safe_mode
    /\ SafetyLevelOf(cur) = 0
    /\ verdict.requires_confirmation

\* the actions C7 is about: unsupported type, click without x or y, type
\* without text, key_press without key
Malformed(action) ==
    LET action_type == Lower(Get(action, "type", << >>)) IN
    \/ action_type \notin DOMAIN ACTION_SAFETY_LEVELS
    \/ action_type = T_click /\ ~({"x", "y"} \subseteq DOMAIN action)
    \/ action_type = T_type /\ "text" \notin DOMAIN action
    \/ action_type = T_key_press /\ "key" \notin DOMAIN action

\* C7: a malformed action is rejected by validate_action (is_valid=false,
\* requires_confirmation=false), and execute_action then returns success=false
\* with the rejection error, asks for no confirmation and issues no OS-level call.
C7_MalformedRejected ==
    (pc \notin {"idle", "validate", "seq_loop", "seq_done"}
        /\ verdict # Null /\ Malformed(cur))
        => /\ ~verdict.is_valid
           /\ ~verdict.requires_confirmation
           /\ pc = "return"
           /\ result # Null
           /\ ~result.success
           /\ result.error = verdict.error
           /\ ~result.confirmation_required
           /\ gate = "not_asked"
           /\ events = << >>

\* a click without y was rejected
C7_Witness ==
    /\ pc = "return"
    /\ cur = A_click_no_y
    /\ verdict # Null
    /\ result # Null
    /\ result.error = "Click action missing coordinates"

\* C8: the gate approves without prompting when confirm_sensitive_actions is
\* off; otherwise it approves only on an explicit approval of the user and
\* denies in every other outcome (no decision, no channel, error).
C8_GateFailSafe ==
    gate # "not_asked" =>
        IF ~confirm_sensitive_actions THEN gate = "approved" /\ channel = "none"
        ELSE IF channel \in {"dialog_yes", "console_yes"} THEN gate = "approved"
        ELSE gate = "denied"

\* C9: after the gate answered Denied, execute_action returns success=false
\* with confirmation_required=true, raises nothing and issued no OS-level call.
C9_DeniedFailsQuietly ==
    gate = "denied" =>
        /\ verdict # Null
        /\ verdict.requires_confirmation
        /\ pc = "return"
        /\ result # Null
        /\ ~result.success
        /\ result.confirmation_required
        /\ events = << >>
        /\ \A i \in 1..Len(action_history) : action_history[i] # result

\* a system_command was denied in the dialog
C9_Witness ==
    /\ gate = "denied"
    /\ channel = "dialog_no"
    /\ cur = A_system_ls
    /\ pc = "return"

SafeZones == <<
    <<"d","e","s","k","t","o","p">>,
    <<"d","o","c","u","m","e","n","t","s">>,
    <<"d","o","w","n","l","o","a","d","s">>,
    <<"p","i","c","t","u","r","e","s">> >>

\* a file_operation delete or format on a path outside the safe zones
UnsafeFileOperation(action) ==
    /\ Lower(Get(action, "type", << >>)) = T_file_operation
    /\ Lower(Get(action, "operation", << >>)) \in
           {<<"d","e","l","e","t","e">>, <<"f","o","r","m","a","t">>}
    /\ ~\E i \in 1..Len(SafeZones) :
           Contains(Lower(Get(action, "path", << >>)), SafeZones[i])

\* C10: in execute_action a file_operation delete or format on a path outside
\* the safe zones is rejected during validation: the gate is never asked about
\* it and it never stands at the dispatch step.
C10_UnsafeFileOperationRejected ==
    (cur # Null /\ UnsafeFileOperation(cur)) =>
        /\ verdict # Null => ~verdict.is_valid
        /\ gate = "not_asked"
        /\ pc \notin {"confirm", "dispatch"}

-----------------------------------------------------------------------------
(* advanced_features.py: SafetyMonitor *)

\* SafetyMonitor.warning_keywords
warning_keywords == <<
    <<"d","e","l","e","t","e">>,
    <<"r","e","m","o","v","e">>,
    <<"f","o","r","m","a","t">>,
    <<"r","m">>,
    <<"d","e","l">>,
    <<"s","u","d","o">>,
    <<"a","d","m","i","n">>,
    <<"p","a","s","s","w","o","r","d">>,
    <<"c","r","e","d","i","t"," ","c","a","r","d">> >>

\* the literal list of dangerous commands in validate_action
DangerousCommands == <<<<"r","m"," ","-","r","f">>, <<"f","o","r","m","a","t">>, <<"d","e","l"," ","/","f">>>>

\* the safe-zone test without .lower()
is_safe_location_case_sensitive(path) ==
    \E i \in 1..Len(SafeZones) : Contains(path, SafeZones[i])

\* SafetyMonitor._is_safe_location
is_safe_location(path) ==
    LET path_lower == Lower(path) IN
    \E i \in 1..Len(SafeZones) : Contains(path_lower, SafeZones[i])

\* SafetyMonitor._is_rapid_action
is_rapid_action(action) == FALSE

\* SafetyMonitor.validate_action: (safe, message)
SafetyMonitor_validate_action(action) ==
    LET action_type == Get(action, "type", << >>)
        target == Lower(Get(action, "target", << >>))
        command == Lower(Get(action, "command", << >>))
        operation == Lower(Get(action, "operation", << >>))
    IN IF \E i \in 1..Len(warning_keywords) : Contains(target, warning_keywords[i])
       THEN [safe |-> FALSE, message |-> "Blocked: Contains dangerous keyword"]
       ELSE IF /\ action_type = T_system_command
               /\ \E i \in 1..Len(DangerousCommands) :
                      Contains(command, DangerousCommands[i])
       THEN [safe |-> FALSE, message |-> "Blocked: Dangerous system command"]
       ELSE IF /\ action_type = T_file_operation
               /\ operation \in {<<"d","e","l","e","t","e">>, <<"f","o","r","m","a","t">>}
               /\ ~is_safe_location(Get(action, "path", << >>))
       THEN [safe |-> FALSE,
             message |-> "Blocked: Unsafe file operation in system area"]
       ELSE IF is_rapid_action(action)
       THEN [safe |-> FALSE,
             message |-> "Blocked: Too many rapid actions detected"]
       ELSE [safe |-> TRUE, message |-> "Action approved"]

\* the strings the action dicts given to the SafetyMonitor carry
T_button == <<"b","u","t","t","o","n">>
T_delete_system == <<"D","e","l","e","t","e"," ","s","y","s","t","e","m">>
T_confirm == <<"C","o","n","f","i","r","m">>
T_remove == <<"R","E","M","O","V","E"," ","i","t","e","m">>
T_ok == <<"O","K">>
T_card == <<"C","r","e","d","i","t"," ","C","a","r","d"," ","n","o">>
Cmd_ls == <<"l","s"," ","-","l","a">>
Cmd_rm_rf == <<"r","m"," ","-","r","f"," ","/">>
Cmd_format == <<"F","O","R","M","A","T"," ","d",":">>
Cmd_del_f == <<"d","e","l"," ","/","f"," ","x">>
Cmd_rm == <<"r","m"," ","x">>
Op_delete == <<"d","e","l","e","t","e">>
Op_format == <<"F","o","r","m","a","t">>
Op_copy == <<"c","o","p","y">>
Op_delete_upper == <<"D","E","L","E","T","E">>
P_etc == <<"/","e","t","c","/","p","a","s","s","w","d">>
P_documents == <<"/","h","o","m","e","/","u","/","D","o","c","u","m","e","n","t","s","/","a">>
P_desktop == <<"C",":","/","D","e","s","k","t","o","p","/","x">>
P_pictures == <<"/","h","o","m","e","/","u","/","p","i","c","t","u","r","e","s","/","p">>
P_downloads == <<"/","t","m","p","/","d","o","w","n","l","o","a","d","s","/","f">>
P_docs_short == <<"/","h","o","m","e","/","u","/","d","o","c","s","/","a">>

SmTargets == {T_button, T_delete_system, T_confirm, T_remove, T_ok, T_card}
SmCommands == {Cmd_ls, Cmd_rm_rf, Cmd_format, Cmd_del_f, Cmd_rm}
SmOperations == {Op_delete, Op_format, Op_copy, Op_delete_upper}
SmPaths == {P_etc, P_documents, P_desktop, P_pictures, P_downloads, P_docs_short}

\* the action dicts given to SafetyMonitor.validate_action
SafetyActions ==
    {[type |-> T_click, target |-> g] : g \in SmTargets}
    \cup {[type |-> T_click], [type |-> T_system_command],
          [type |-> T_file_operation],
          [type |-> T_file_operation, operation |-> Op_delete]}
    \cup {[type |-> T_system_command, command |-> c] : c \in SmCommands}
    \cup {[type |-> T_system_command, command |-> c, target |-> T_button] :
              c \in SmCommands}
    \cup {[type |-> T_type, command |-> Cmd_rm_rf],
          [type |-> T_click, operation |-> Op_delete, path |-> P_etc]}
    \cup {[type |-> T_file_operation, operation |-> o, path |-> p] :
              o \in SmOperations, p \in SmPaths}
    \cup {[type |-> T_file_operation, operation |-> o, path |-> p,
           target |-> T_ok] : o \in SmOperations, p \in SmPaths}

\* SafetyMonitor.validate_action as a function of the action dict
InitSafety ==
    /\ InitController
    /\ InitEngine
    /\ InitTracker

\* an action is handed to the SafetyMonitor
SafetyPropose ==
    /\ pc = "idle"
    /\ \E action \in SafetyActions : cur' = action
    /\ pc' = "sm_proposed"
    /\ UNCHANGED <<verdict, gate, channel, result, events>>
    /\ UNCHANGED <<ctlVars, cfgVars, seqVars, engVars, trkVars>>

\* safe, msg = safety.validate_action(action, {})
SafetyValidate ==
    /\ pc = "sm_proposed"
    /\ verdict' = SafetyMonitor_validate_action(cur)
    /\ pc' = "sm_validated"
    /\ UNCHANGED <<cur, gate, channel, result, events>>
    /\ UNCHANGED <<ctlVars, cfgVars, seqVars, engVars, trkVars>>

NextSafety == SafetyPropose \/ SafetyValidate

SpecSafety == InitSafety /\ [][NextSafety]_vars

-----------------------------------------------------------------------------
(* Properties of the SafetyMonitor *)

\* the action's target contains a warning keyword, whatever the case
TargetHasWarningKeyword(action) ==
    /\ "target" \in DOMAIN action
    /\ \E i \in 1..Len(warning_keywords) :
           Contains(Lower(action["target"]), warning_keywords[i])

\* a system_command whose command contains 'rm -rf', 'format' or 'del /f'
DangerousSystemCommand(action) ==
    /\ "type" \in DOMAIN action /\ action["type"] = T_system_command
    /\ "command" \in DOMAIN action
    /\ \E d \in {<<"r","m"," ","-","r","f">>, <<"f","o","r","m","a","t">>, <<"d","e","l"," ","/","f">>} :
           Contains(Lower(action["command"]), d)

\* a file_operation delete or format whose path names no safe zone
FileOperationOutsideSafeZones(action) ==
    /\ "type" \in DOMAIN action /\ action["type"] = T_file_operation
    /\ "operation" \in DOMAIN action
    /\ Lower(action["operation"]) \in {<<"d","e","l","e","t","e">>, <<"f","o","r","m","a","t">>}
    /\ \A i \in 1..Len(SafeZones) :
           ~Contains(Lower(Get(action, "path", << >>)), SafeZones[i])

\* C11: SafetyMonitor.validate_action answers (False, reason) for an action
\* whose target contains a warning keyword, for a system_command with a
\* dangerous command and for a file_operation delete/format outside the safe
\* zones; for every other action it answers (True, 'Action approved').
C11_SafetyMonitorVerdict ==
    pc = "sm_validated" =>
        IF \/ TargetHasWarningKeyword(cur)
           \/ DangerousSystemCommand(cur)
           \/ FileOperationOutsideSafeZones(cur)
        THEN ~verdict.safe /\ verdict.message # "Action approved"
        ELSE verdict.safe /\ verdict.message = "Action approved"

\* a delete under Documents was approved, a delete of /etc/passwd was not
C11_Witness ==
    /\ pc = "sm_validated"
    /\ \/ cur = [type |-> T_file_operation, operation |-> Op_delete,
                 path |-> P_documents] /\ verdict.safe
       \/ cur = [type |-> T_file_operation, operation |-> Op_delete,
                 path |-> P_etc] /\ ~verdict.safe

-----------------------------------------------------------------------------
(* Properties of validation and dispatch *)

\* C12: with safe_mode off every action that passes validation requires
\* confirmation; with safe_mode on an action of safety level below 3 that
\* contains no sensitive keyword does not.
C12_SafeModeConfirmation ==
    (pc = "validated" /\ verdict.is_valid) =>
        /\ ~safe_mode => verdict.requires_confirmation
        /\ (/\ safe_mode
            /\ SafetyLevelOf(cur) < 3
            /\ ~TextHasKeyword(cur, SENSITIVE_KEYWORDS))
              => ~verdict.requires_confirmation

\* safe_mode off: a plain click requires confirmation
C12_Witness ==
    /\ pc = "validated"
    /\ ~safe_mode
    /\ cur = A_click
    /\ verdict.is_valid
    /\ verdict.requires_confirmation

\* safe_mode on: a plain click requires none
C12_WitnessSafeModeOn ==
    /\ pc = "validated"
    /\ safe_mode
    /\ cur = A_click
    /\ verdict.is_valid
    /\ ~verdict.requires_confirmation

\* a click with both coordinates inside the screen and no sensitive keyword
PlainOnScreenClick(action) ==
    /\ action # Null
    /\ Lower(Get(action, "type", << >>)) = T_click
    /\ {"x", "y"} \subseteq DOMAIN action
    /\ 0 <= action["x"] /\ action["x"] < ScreenW
    /\ 0 <= action["y"] /\ action["y"] < ScreenH
    /\ ~TextHasKeyword(action, SENSITIVE_KEYWORDS)

SpecActionTypes ==
    {T_click, <<"t","y","p","e","_","t","e","x","t">>, T_key_press, T_scroll, T_drag,
     T_move_mouse, T_launch_app, T_close_app, T_wait}

\* C14: with the stop flag clear, safe_mode on and no sensitive keyword, an
\* action of any type of the Action enum given with its required parameters
\* passes validation and is dispatched to its low-level operation; it does
\* not end as an unsupported or unknown action type.
C14_EveryEnumTypeDispatches ==
    (/\ pc = "return"
     /\ safe_mode
     /\ Lower(Get(cur, "type", << >>)) \in SpecActionTypes
     /\ RequiredAtDispatch(Lower(Get(cur, "type", << >>))) \subseteq DOMAIN cur
     /\ ~TextHasKeyword(cur, SENSITIVE_KEYWORDS)
     /\ result.error # "Emergency stop activated")
        => /\ verdict # Null
           /\ verdict.is_valid
           /\ result.error \notin {"Unsupported action type", "Unknown action type"}

-----------------------------------------------------------------------------
(* ScreenInteraction called directly: the coordinate operations *)

\* ScreenInteraction.scaling_factor as numerator and denominator: 1.0, 2.0, 1.5
Scalings == {<<1, 1>>, <<2, 1>>, <<3, 2>>}

\* the coordinates given to the coordinate operations
PointerXs == {-1, 0, ScreenW \div 2, ScreenW - 1, ScreenW, ScreenW + 1}
PointerYs == {-1, 0, ScreenH \div 2, ScreenH - 1, ScreenH, ScreenH + 1}

\* the calls of click, move_mouse and drag
PointerCalls ==
    {[op |-> o, x |-> x, y |-> y] :
        o \in {"click", "move_mouse"}, x \in PointerXs, y \in PointerYs}
    \cup {[op |-> "drag", x |-> x, y |-> y, end_x |-> ex, end_y |-> ey] :
            x \in PointerXs, y \in {0, ScreenH}, ex \in PointerXs,
            ey \in {-1, ScreenH \div 2}}

\* the operation a call names, applied to its arguments
PointerOperation(call, sc, osOk) ==
    CASE call.op = "click" -> click(call.x, call.y, sc, osOk)
      [] call.op = "move_mouse" -> move_mouse(call.x, call.y, sc, osOk)
      [] call.op = "drag" -> drag(call.x, call.y, call.end_x, call.end_y, sc, osOk)

\* a ScreenInteraction on a display with some scaling
InitPointer ==
    /\ emergency_stop = FALSE
    /\ running = FALSE
    /\ action_history = << >>
    /\ pressed_keys = {}
    /\ running_apps = {}
    /\ safe_mode = TRUE
    /\ confirm_sensitive_actions = TRUE
    /\ scaling_factor \in Scalings
    /\ pc = "idle"
    /\ cur = Null
    /\ verdict = Null
    /\ gate = "not_asked"
    /\ channel = "none"
    /\ result = Null
    /\ events = << >>
    /\ seq_on = FALSE
    /\ seq_rest = << >>
    /\ seq_results = << >>
    /\ InitEngine
    /\ InitTracker

\* self.interaction.click(...) / move_mouse(...) / drag(...)
PointerCall ==
    /\ pc = "idle"
    /\ \E call \in PointerCalls, osOk \in BOOLEAN :
          LET ll == PointerOperation(call, scaling_factor, osOk) IN
          /\ cur' = call
          /\ result' = [ok |-> ll.ok]
          /\ events' = ll.events
    /\ pc' = "pointer_done"
    /\ UNCHANGED <<verdict, gate, channel>>
    /\ UNCHANGED <<ctlVars, cfgVars, seqVars, engVars, trkVars>>

\* the caller takes the return value
PointerReturn ==
    /\ pc = "pointer_done"
    /\ pc' = "idle"
    /\ ClearCall
    /\ UNCHANGED <<ctlVars, cfgVars, seqVars, engVars, trkVars>>

NextPointer == PointerCall \/ PointerReturn

SpecPointer == InitPointer /\ [][NextPointer]_vars

\* the scaled point lies outside the pixel range of the screen
OutsideScreen(x, y, sc) ==
    \/ Scale(x, sc) < 0 \/ Scale(x, sc) >= ScreenW
    \/ Scale(y, sc) < 0 \/ Scale(y, sc) >= ScreenH

\* C15: a click, move_mouse or drag whose scaled target (for drag: start or
\* end point) lies outside the pixel range of the screen returns failure and
\* issues no pointer event.
C15_OutOfBoundsRejected ==
    (/\ pc = "pointer_done"
     /\ \/ OutsideScreen(cur.x, cur.y, scaling_factor)
        \/ cur.op = "drag" /\ OutsideScreen(cur.end_x, cur.end_y, scaling_factor))
        => ~result.ok /\ events = << >>

-----------------------------------------------------------------------------
(* Properties of the dispatch and of the history *)

\* the low-level operation of the call failed: it issued no OS-level call
\* (returned false, or a required parameter was missing) or its last
\* OS-level call raised
LowLevelFailed(evs) == evs = << >> \/ evs[Len(evs)].raised

\* C16: when the dispatched low-level operation fails (returns false, raises,
\* or lacks a required parameter) execute_action goes to its return with a
\* failed ActionResult carrying an error; no exception leaves the call.
C16_DispatchFailureContained ==
    [][(pc = "dispatch" /\ pc' # "dispatch") =>
          /\ pc' = "return"
          /\ result' # Null
          /\ LowLevelFailed(events') =>
                (~result'.success /\ result'.error \notin {"None", ""})]_vars

\* the drag without its coordinates came back as a failed result
C16_Witness ==
    /\ pc = "return"
    /\ cur = A_drag_partial
    /\ verdict # Null /\ verdict.is_valid
    /\ result.error = "KeyError"
    /\ ~result.success

\* C17: when execute_action returns an ActionResult, that result is the last
\* entry of action_history, for every outcome of the call.
C17_ReturnedResultIsLastInHistory ==
    (pc = "return" /\ result # Null) =>
        /\ Len(action_history) > 0
        /\ action_history[Len(action_history)] = result

-----------------------------------------------------------------------------
(* Properties of execute_user_command *)

\* the 0-based step indices recorded in a list of the tracker
RecordedIndices(entries) == {entries[k][1] : k \in 1..Len(entries)}

\* C18: a step is attempted at most 1 + max_retries times; a step that failed
\* on every attempt is recorded failed exactly once and not attempted again; a
\* step that succeeded is recorded completed exactly once and never failed.
C18_BoundedRetriesRecordedOnce ==
    /\ e_pc = "attempt" => retry_count <= max_retries
    /\ handler_calls <= (1 + max_retries) * idx
    /\ tracker.current_session_id # NoSession =>
          /\ Len(tracker.failed_steps) = failed_steps
          /\ Len(tracker.completed_steps) = successful_steps
          /\ Cardinality(RecordedIndices(tracker.failed_steps)) = failed_steps
          /\ Cardinality(RecordedIndices(tracker.completed_steps)) = successful_steps
          /\ RecordedIndices(tracker.failed_steps)
                \cap RecordedIndices(tracker.completed_steps) = {}
          /\ e_pc = "attempt" =>
                \A i \in RecordedIndices(tracker.failed_steps)
                         \cup RecordedIndices(tracker.completed_steps) : i < idx - 1
    /\ e_pc = "done" =>
          /\ summaries[Len(summaries)].failed_steps = failed_steps
          /\ summaries[Len(summaries)].completed_steps = successful_steps

\* step 3 of a plan failed three times and is on record once, step 4 is next
C18_Witness ==
    /\ e_pc = "attempt"
    /\ idx = 4
    /\ retry_count = 0
    /\ failed_steps = 1
    /\ tracker.failed_steps = <<<<2, StepText(3)>>>>
    /\ handler_calls = 5

\* the step is the first, the second or the last of the plan
FirstSecondOrLast(i, total_steps) == i \in {1, 2, total_steps}

\* C19: when the first, second or last step fails after its retries are
\* exhausted, the session is closed as failed, the command returns False and
\* no step is attempted afterwards.
C19_CriticalFailureAborts ==
    [][/\ (/\ e_pc = "attempt"
           /\ failed_steps' = failed_steps + 1
           /\ FirstSecondOrLast(idx, Len(steps)))
          => /\ e_pc' = "done"
             /\ e_ret' = "False"
             /\ summaries' # summaries
             /\ ~summaries'[Len(summaries')].success
             /\ tracker'.current_session_id = NoSession
       /\ e_pc = "done" => (e_pc' = "done" /\ handler_calls' = handler_calls)]_vars

\* the last of five steps failed after four successes and the run was aborted
C19_Witness ==
    /\ e_pc = "done"
    /\ e_ret = "False"
    /\ Len(steps) = 5
    /\ idx = 5
    /\ successful_steps = 4
    /\ failed_steps = 1
    /\ ~summaries[Len(summaries)].success

\* C20: a step that fails after its retries are exhausted and is not the
\* first, second or last step is non-critical: the run goes on to the next
\* step.  A 4-step plan in which only step 3 fails ends with completed=3,
\* failed=1, completion_rate=0.75 and returns True.
C20_NonCriticalFailureContinues ==
    [][(/\ e_pc = "attempt"
        /\ failed_steps' = failed_steps + 1
        /\ ~FirstSecondOrLast(idx, Len(steps)))
          => /\ e_pc' = "attempt"
             /\ idx' = idx + 1
             /\ retry_count' = 0
             /\ e_ret' = e_ret]_vars

-----------------------------------------------------------------------------
(* execute_user_command on its own: long plans, no key pressed meanwhile *)

MaxLongPlan == 8     \* length of the plan given to execute_user_command here

\* one run of execute_user_command on a plan of MaxLongPlan steps
NextEngineLong ==
    \/ execute_user_command(MaxLongPlan)
    \/ Attempt
    \/ Report

SpecEngineLong == InitEngineRun /\ [][NextEngineLong]_vars

\* the summary complete_task returned when the run closed its session
FinalSummary == summaries[Len(summaries)]

\* the run left the loops through the critical-failure return
Aborted == e_pc = "done" /\ retry_count > max_retries

\* C21 as stated: every run is classified success (returns True, summary
\* success=true) exactly when completed_steps / total_steps >= 0.75.
C21_SuccessIffThreeQuarters ==
    e_pc = "done" =>
        /\ FinalSummary.completion_rate = <<successful_steps, Len(steps)>>
        /\ (e_ret = "True") <=> (4 * successful_steps >= 3 * Len(steps))
        /\ FinalSummary.success <=> (4 * successful_steps >= 3 * Len(steps))

\* C21: the summary's completion_rate is completed_steps / total_steps; a run
\* that reaches the end of its plan is classified success exactly when that
\* rate is >= 0.75 (all steps done: rate 1); a run aborted by a critical
\* failure is classified failed whatever its rate.
C21_ClassificationAfterAllSteps ==
    e_pc = "done" =>
        /\ FinalSummary.completion_rate = <<successful_steps, Len(steps)>>
        /\ FinalSummary.completed_steps = successful_steps
        /\ FinalSummary.total_steps = Len(steps)
        /\ FinalSummary.success <=> (e_ret = "True")
        /\ IF Aborted THEN e_ret = "False"
           ELSE (e_ret = "True") <=> (4 * successful_steps >= 3 * Len(steps))

\* six of eight steps done, two non-critical steps failed: rate 0.75, success
C21_Witness ==
    /\ e_pc = "done"
    /\ ~Aborted
    /\ Len(steps) = 8
    /\ successful_steps = 6
    /\ failed_steps = 2
    /\ e_ret = "True"
    /\ FinalSummary.success

\* five of eight steps done and the plan run to its end: rate below 0.75, failed
C21_WitnessBelow ==
    /\ e_pc = "done"
    /\ ~Aborted
    /\ Len(steps) = 8
    /\ successful_steps = 5
    /\ e_ret = "False"

-----------------------------------------------------------------------------
(* utils/task_tracker.py: the TaskTracker called directly *)

\* the lengths of the step lists given to start_new_task
TrackerPlanLengths == {0, 1}

\* the step_idx arguments given to mark_step_complete
MarkIndices == {0}

\* the seconds at which the tracker is called
TrackerSeconds == {1, 2}

MaxMarks == 2        \* calls of mark_step_complete within one session
MaxSessions == 1     \* calls of complete_task that close a session

\* TaskTracker.get_progress_report
get_progress_report(trk) ==
    IF trk.current_session_id = NoSession THEN [status |-> "no_active_task"]
    ELSE LET total_steps == Len(trk.current_steps)
             completed_steps == Len(trk.completed_steps)
             failed_steps_ == Len(trk.failed_steps)
         IN [session_id |-> trk.current_session_id,
             command |-> trk.current_command,
             total_steps |-> total_steps,
             completed_steps |-> completed_steps,
             failed_steps |-> failed_steps_,
             remaining_steps |-> total_steps - completed_steps - failed_steps_,
             completion_rate |-> CompletionRate(completed_steps, total_steps)]

\* task_tracker.start_new_task(command, steps)
TrkStart ==
    /\ \E n \in TrackerPlanLengths, diskOk \in EngineDisk :
          LET st == start_new_task(tracker, files, now, <<"command">>,
                                   [i \in 1..n |-> StepText(i)], diskOk)
          IN tracker' = st.tracker /\ files' = st.files
    /\ UNCHANGED <<summaries, now>>
    /\ UNCHANGED <<ctlVars, cfgVars, callVars, seqVars, engVars>>

\* task_tracker.mark_step_complete(step_idx, step_text, success)
TrkMark ==
    /\ Len(tracker.completed_steps) + Len(tracker.failed_steps) < MaxMarks
    /\ \E step_idx \in MarkIndices, success \in BOOLEAN, diskOk \in EngineDisk :
          LET mk == mark_step_complete(tracker, files, step_idx,
                                       StepText(step_idx + 1), success, diskOk)
          IN tracker' = mk.tracker /\ files' = mk.files
    /\ UNCHANGED <<summaries, now>>
    /\ UNCHANGED <<ctlVars, cfgVars, callVars, seqVars, engVars>>

\* task_tracker.complete_task(success)
TrkComplete ==
    /\ Len(summaries) < MaxSessions
    /\ \E success \in BOOLEAN, diskOk \in EngineDisk :
          LET ct == complete_task(tracker, files, success, diskOk)
          IN /\ tracker' = ct.tracker
             /\ files' = ct.files
             /\ summaries' = IF ct.summary = Null THEN summaries
                             ELSE Append(summaries, ct.summary)
    /\ UNCHANGED now
    /\ UNCHANGED <<ctlVars, cfgVars, callVars, seqVars, engVars>>

\* task_tracker.get_progress_report()
TrkReport ==
    /\ get_progress_report(tracker) = get_progress_report(tracker)
    /\ UNCHANGED vars

\* a second passes
Tick ==
    /\ now + 1 \in TrackerSeconds
    /\ now' = now + 1
    /\ UNCHANGED <<tracker, files, summaries>>
    /\ UNCHANGED <<ctlVars, cfgVars, callVars, seqVars, engVars>>

NextTracker == TrkStart \/ TrkMark \/ TrkComplete \/ TrkReport \/ Tick

SpecTracker == InitEngineRun /\ [][NextTracker]_vars

-----------------------------------------------------------------------------
(* Properties of the TaskTracker *)

\* the pair <<a, b>> read as the fraction a / b lies in [0, 1]
InUnitInterval(rate) == 0 <= rate[1] /\ rate[1] <= rate[2]

\* C22: every completion_rate in a progress report or a summary equals
\* |completed_steps| / |steps| and lies in [0,1]; completed plus failed steps
\* never exceed the steps; remaining_steps is never negative.
C22_RatesWithinBounds ==
    /\ tracker.current_session_id # NoSession =>
          LET report == get_progress_report(tracker) IN
          /\ report.completion_rate =
                CompletionRate(Len(tracker.completed_steps),
                               Len(tracker.current_steps))
          /\ InUnitInterval(report.completion_rate)
          /\ report.completed_steps + report.failed_steps <= report.total_steps
          /\ report.remaining_steps >= 0
    /\ \A k \in 1..Len(summaries) :
          /\ InUnitInterval(summaries[k].completion_rate)
          /\ summaries[k].completed_steps + summaries[k].failed_steps
                <= summaries[k].total_steps

\* the JSON document of the active session
ActiveDocument == files[tracker.current_session_id]

ClosedDocuments == {f \in DOMAIN files : files[f].summary # Null}

\* C24: once complete_task has written a session's document with its summary,
\* no later TaskTracker operation changes that document.
C24_ClosedRecordNeverChanges ==
    [][\A f \in ClosedDocuments : f \in DOMAIN files' /\ files'[f] = files[f]]_vars

-----------------------------------------------------------------------------
(* Termination of execute_user_command *)

\* one run of execute_user_command on its own
NextEngineRun ==
    \/ \E n \in 1..MaxSteps : execute_user_command(n)
    \/ Attempt
    \/ Report

\* execute_user_command is sequential code: once called, each pass of its
\* while loop and its completion report are eventually executed
SpecEngineFair ==
    InitEngineRun /\ [][NextEngineRun]_vars /\ WF_vars(Attempt) /\ WF_vars(Report)

\* the session opened by the run is closed with a summary, and only once
ClosedOnce ==
    /\ Len(summaries) = 1
    /\ tracker.current_session_id = NoSession
    /\ FinalSummary.session_id \in DOMAIN files
    /\ files[FinalSummary.session_id].summary = FinalSummary

\* C25: a run that started a session ends, after at most
\* N * (max_retries + 1) handler invocations for its N steps, and has then
\* closed the session exactly once with a final summary; until it ends the
\* session is open and no summary was given.
C25_RunTerminatesAndClosesOnce ==
    /\ [](handler_calls <= Len(steps) * (max_retries + 1))
    /\ [](e_pc \in {"attempt", "report"} =>
             Len(summaries) = 0 /\ tracker.current_session_id # NoSession)
    /\ [](e_pc = "done" => ClosedOnce)
    /\ (e_pc = "attempt") ~> (e_pc = "done")

\* a run of five steps ended as a partial completion: step 3 failed on all
\* three attempts, the other four succeeded
C25_Witness ==
    /\ e_pc = "done"
    /\ ClosedOnce
    /\ Len(steps) = 5
    /\ handler_calls = 7
    /\ FinalSummary.completed_steps = 4
    /\ FinalSummary.failed_steps = 1
    /\ e_ret = "True"

\* a run of one step ended as a critical abort after three attempts
C25_WitnessAbort ==
    /\ e_pc = "done"
    /\ ClosedOnce
    /\ Len(steps) = 1
    /\ handler_calls = 3
    /\ e_ret = "False"

-----------------------------------------------------------------------------
(* Python string methods used by the decomposer *)

\* s[i:] with i counted from 0
From(s, i) == SubSeq(s, i + 1, Len(s))

\* s[i:j] with i and j counted from 0
Slice(s, i, j) == SubSeq(s, i + 1, IF j > Len(s) THEN Len(s) ELSE j)

\* s.startswith(sub)
StartsWith(s, sub) == Len(sub) <= Len(s) /\ SubSeq(s, 1, Len(sub)) = sub

\* the indices from 0 at which sub occurs in s
Occurrences(s, sub) ==
    {i \in 0..(Len(s) - Len(sub)) : \A j \in 1..Len(sub) : s[i + j] = sub[j]}

\* s.find(sub): the index from 0 of the first occurrence, -1 without one
PyFind(s, sub) ==
    LET found == Occurrences(s, sub)
    IN IF found = {} THEN -1
       ELSE CHOOSE i \in found : \A k \in found : i <= k

\* s.replace(old, new) for a non-empty old: occurrences from left to right
RECURSIVE PyReplace(_, _, _)
PyReplace(s, old, new) ==
    LET at == PyFind(s, old)
    IN IF at = -1 THEN s
       ELSE Slice(s, 0, at) \o new \o PyReplace(From(s, at + Len(old)), old, new)

\* s.split(sep): the pieces between the occurrences of sep, empty ones included
RECURSIVE PySplit(_, _)
PySplit(s, sep) ==
    LET at == PyFind(s, sep)
    IN IF at = -1 THEN <<s>>
       ELSE <<Slice(s, 0, at)>> \o PySplit(From(s, at + Len(sep)), sep)

\* s.split(sep, 1)
PySplitOnce(s, sep) ==
    LET at == PyFind(s, sep)
    IN IF at = -1 THEN <<s>>
       ELSE <<Slice(s, 0, at), From(s, at + Len(sep))>>

Whitespace == {" ", "\n", "\t"}

\* s.lstrip()
LStrip(s) ==
    IF \A i \in 1..Len(s) : s[i] \in Whitespace THEN << >>
    ELSE From(s, (CHOOSE i \in 1..Len(s) :
                     /\ s[i] \notin Whitespace
                     /\ \A j \in 1..(i - 1) : s[j] \in Whitespace) - 1)

\* s.rstrip()
RStrip(s) ==
    IF \A i \in 1..Len(s) : s[i] \in Whitespace THEN << >>
    ELSE Slice(s, 0, CHOOSE i \in 1..Len(s) :
                        /\ s[i] \notin Whitespace
                        /\ \A j \in (i + 1)..Len(s) : s[j] \in Whitespace)

\* s.strip()
Strip(s) == RStrip(LStrip(s))

\* s.splitlines(): the lines of s; a final line break opens no further line
RECURSIVE SplitLines(_)
SplitLines(s) ==
    IF s = << >> THEN << >>
    ELSE LET at == PyFind(s, <<"\n">>)
         IN IF at = -1 THEN <<s>>
            ELSE <<Slice(s, 0, at)>> \o SplitLines(From(s, at + 1))

\* c.isdigit()
IsDigit(c) == \E i \in 1..10 : Digits[i] = c

\* x in list
InList(x, list) == \E i \in 1..Len(list) : list[i] = x

\* set(list)
SetOf(list) == {list[i] : i \in 1..Len(list)}

-----------------------------------------------------------------------------
(* real_desktop_agent.py: RealDesktopAgent.refactor_user_prompt *)

\* typo_fixes, in the order of the dict
typo_fixes ==
    <<<<<<"g","o","o","g","e","l">>, <<"g","o","o","g","l","e">>>>,
     <<<<"g","o","g","l","e">>, <<"g","o","o","g","l","e">>>>,
     <<<<"g","o","o","g","l">>, <<"g","o","o","g","l","e">>>>,
     <<<<"s","e","r","c","h">>, <<"s","e","a","r","c","h">>>>,
     <<<<"s","e","r","a","c","h">>, <<"s","e","a","r","c","h">>>>,
     <<<<"s","r","e","a","c","h">>, <<"s","e","a","r","c","h">>>>,
     <<<<"s","r","c","h">>, <<"s","e","a","r","c","h">>>>,
     <<<<"w","e","b","i","s","t","e">>, <<"w","e","b","s","i","t","e">>>>,
     <<<<"w","e","b","s","i","t">>, <<"w","e","b","s","i","t","e">>>>,
     <<<<"w","e","b","s","t","e">>, <<"w","e","b","s","i","t","e">>>>,
     <<<<"f","a","c","b","o","o","k">>, <<"f","a","c","e","b","o","o","k">>>>,
     <<<<"f","b">>, <<"f","a","c","e","b","o","o","k">>>>,
     <<<<"f","a","e","c","b","o","o","k">>, <<"f","a","c","e","b","o","o","k">>>>,
     <<<<"y","o","u","u","t","b","e">>, <<"y","o","u","t","u","b","e">>>>,
     <<<<"y","t","u","b","e">>, <<"y","o","u","t","u","b","e">>>>,
     <<<<"u","t","u","b","e">>, <<"y","o","u","t","u","b","e">>>>,
     <<<<"i","n","s","t","g","r","a","m">>, <<"i","n","s","t","a","g","r","a","m">>>>,
     <<<<"i","n","s","t","a">>, <<"i","n","s","t","a","g","r","a","m">>>>,
     <<<<"t","w","e","e","t","e","r">>, <<"t","w","i","t","t","e","r">>>>,
     <<<<"t","w","i","t","e","r">>, <<"t","w","i","t","t","e","r">>>>>>

\* for typo, correction in typo_fixes.items(): cmd_lower = cmd_lower.replace(...)
RECURSIVE FixTypos(_, _)
FixTypos(s, k) ==
    IF k > Len(typo_fixes) THEN s
    ELSE LET fixed == PyReplace(s, typo_fixes[k][1], typo_fixes[k][2])
         IN IF Len(fixed) >= 0 THEN FixTypos(fixed, k + 1) ELSE fixed

site_matches ==
    <<<<<<"f","a","c","e","b","o","o","k">>, <<"f","a","c","e","b","o","o","k",".","c","o","m">>>>,
     <<<<"t","w","i","t","t","e","r">>, <<"t","w","i","t","t","e","r",".","c","o","m">>>>,
     <<<<"y","o","u","t","u","b","e">>, <<"y","o","u","t","u","b","e",".","c","o","m">>>>,
     <<<<"i","n","s","t","a","g","r","a","m">>, <<"i","n","s","t","a","g","r","a","m",".","c","o","m">>>>,
     <<<<"a","m","a","z","o","n">>, <<"a","m","a","z","o","n",".","c","o","m">>>>,
     <<<<"r","e","d","d","i","t">>, <<"r","e","d","d","i","t",".","c","o","m">>>>,
     <<<<"w","i","k","i","p","e","d","i","a">>, <<"w","i","k","i","p","e","d","i","a",".","o","r","g">>>>,
     <<<<"l","i","n","k","e","d","i","n">>, <<"l","i","n","k","e","d","i","n",".","c","o","m">>>>,
     <<<<"g","i","t","h","u","b">>, <<"g","i","t","h","u","b",".","c","o","m">>>>,
     <<<<"n","e","t","f","l","i","x">>, <<"n","e","t","f","l","i","x",".","c","o","m">>>>>>

\* the sites looked for when a result is to be selected
result_sites == <<<<"f","a","c","e","b","o","o","k">>,
     <<"t","w","i","t","t","e","r">>,
     <<"y","o","u","t","u","b","e">>,
     <<"i","n","s","t","a","g","r","a","m">>,
     <<"a","m","a","z","o","n">>,
     <<"r","e","d","d","i","t">>,
     <<"g","i","t","h","u","b">>>>

cleanup_phrases ==
    <<<<" ","a","n","d"," ","e","n","t","e","r"," ","t","h","e"," ","f","i","r","s","t"," ","p","a","g","e">>,
     <<" ","a","n","d"," ","c","l","i","c","k"," ","t","h","e"," ","f","i","r","s","t">>,
     <<" ","a","n","d"," ","o","p","e","n"," ","t","h","e"," ","f","i","r","s","t">>,
     <<" ","a","n","d"," ","g","o"," ","t","o"," ","t","h","e"," ","f","i","r","s","t">>,
     <<" ","a","n","d"," ","v","i","s","i","t"," ","t","h","e"," ","f","i","r","s","t">>,
     <<" ","a","n","d"," ","a","c","c","e","s","s"," ","t","h","e"," ","f","i","r","s","t">>,
     <<" ","y","o","u"," ","f","i","n","d">>,
     <<" ","r","e","s","u","l","t">>,
     <<" ","p","a","g","e"," ","y","o","u"," ","f","i","n","d">>,
     <<" ","l","i","n","k"," ","y","o","u"," ","f","i","n","d">>>>

\* for phrase in cleanup_phrases: clean_command = clean_command.replace(phrase, "")
RECURSIVE RemovePhrases(_, _)
RemovePhrases(s, k) ==
    IF k > Len(cleanup_phrases) THEN s
    ELSE LET cleaned == PyReplace(s, cleanup_phrases[k], << >>)
         IN IF Len(cleaned) >= 0 THEN RemovePhrases(cleaned, k + 1) ELSE cleaned

connectors == <<<<" ","a","n","d"," ">>, <<" ","t","h","e","n"," ">>, <<" ","a","f","t","e","r"," ">>>>

keywords ==
    <<<<"f","a","c","e","b","o","o","k">>,
     <<"g","o","o","g","l","e">>,
     <<"y","o","u","t","u","b","e">>,
     <<"g","i","t","h","u","b">>,
     <<"s","t","a","c","k","o","v","e","r","f","l","o","w">>,
     <<"r","e","d","d","i","t">>,
     <<"w","i","k","i","p","e","d","i","a">>,
     <<"t","w","i","t","t","e","r">>,
     <<"i","n","s","t","a","g","r","a","m">>,
     <<"l","i","n","k","e","d","i","n">>,
     <<"a","m","a","z","o","n">>,
     <<"n","e","t","f","l","i","x">>>>

\* the first index at which a list of booleans is true, 0 without one
FirstTrue(flags) ==
    IF \E i \in 1..Len(flags) : flags[i]
    THEN CHOOSE i \in 1..Len(flags) : flags[i] /\ \A j \in 1..(i - 1) : ~flags[j]
    ELSE 0

\* s.strip("\"'")
RECURSIVE StripQuotes(_)
StripQuotes(s) ==
    IF s # << >> /\ s[1] \in {"\"", "'"} THEN StripQuotes(Tail(s))
    ELSE IF s # << >> /\ s[Len(s)] \in {"\"", "'"}
    THEN StripQuotes(SubSeq(s, 1, Len(s) - 1))
    ELSE s

\* a response of ollama_client.generate_text as the agent sees it:
\* kind "raises" (the call raises), "failure" (success false), "ok"
OracleRaises == [kind |-> "raises", content |-> << >>, simplified |-> FALSE]
OracleFailure == [kind |-> "failure", content |-> << >>, simplified |-> FALSE]
OracleOk(content) == [kind |-> "ok", content |-> content, simplified |-> FALSE]

\* RealDesktopAgent.ai_extract_search_term, given the oracle's response
ai_extract_search_term(ai) ==
    IF ai.kind = "ok" THEN StripQuotes(Strip(ai.content)) ELSE <<"f","a","c","e","b","o","o","k">>

\* the search term cut out of command after the phrase key of clean_command
TermAfter(command, clean_command, key) ==
    LET start_ == PyFind(clean_command, key) + Len(key)
        rest == From(clean_command, start_)
        c == FirstTrue([i \in 1..Len(connectors) |-> Contains(rest, connectors[i])])
        end_pos == IF c = 0 THEN Len(clean_command)
                   ELSE start_ + PyFind(rest, connectors[c])
    IN Strip(Slice(command, start_, end_pos))

\* RealDesktopAgent.extract_search_term
extract_search_term(command, ai) ==
    LET clean_command == RemovePhrases(Lower(command), 1)
        k == FirstTrue([i \in 1..Len(keywords) |-> Contains(clean_command, keywords[i])])
    IN IF Contains(clean_command, <<"s","e","a","r","c","h"," ","f","o","r"," ">>)
       THEN TermAfter(command, clean_command, <<"s","e","a","r","c","h"," ","f","o","r"," ">>)
       ELSE IF Contains(clean_command, <<"f","i","n","d"," ">>)
       THEN TermAfter(command, clean_command, <<"f","i","n","d"," ">>)
       ELSE IF Contains(clean_command, <<"l","o","o","k"," ","u","p"," ">>)
       THEN TermAfter(command, clean_command, <<"l","o","o","k"," ","u","p"," ">>)
       ELSE IF k # 0 THEN keywords[k]
       ELSE ai_extract_search_term(ai)

Step_open_chrome == <<"O","p","e","n"," ","G","o","o","g","l","e"," ","C","h","r","o","m","e">>
Step_wait_chrome == <<"W","a","i","t"," ","f","o","r"," ","C","h","r","o","m","e"," ","t","o"," ","l","o","a","d"," ","(","3"," ","s","e","c","o","n","d","s",")">>
Step_focus == <<"F","o","c","u","s"," ","o","n"," ","t","h","e"," ","a","d","d","r","e","s","s"," ","b","a","r"," ","(","p","r","e","s","s"," ","C","t","r","l","+","L",")">>
Step_enter_navigate == <<"P","r","e","s","s"," ","E","n","t","e","r"," ","t","o"," ","n","a","v","i","g","a","t","e">>
Step_enter_search == <<"P","r","e","s","s"," ","E","n","t","e","r"," ","t","o"," ","s","e","a","r","c","h">>
Step_wait_results == <<"W","a","i","t"," ","f","o","r"," ","s","e","a","r","c","h"," ","r","e","s","u","l","t","s"," ","t","o"," ","l","o","a","d"," ","(","3"," ","s","e","c","o","n","d","s",")">>
Step_click_first == <<"C","l","i","c","k"," ","o","n"," ","t","h","e"," ","f","i","r","s","t"," ","s","e","a","r","c","h"," ","r","e","s","u","l","t">>
Step_wait_page == <<"W","a","i","t"," ","f","o","r"," ","t","h","e"," ","p","a","g","e"," ","t","o"," ","l","o","a","d"," ","(","3"," ","s","e","c","o","n","d","s",")">>
Step_type_address(site_domain) == <<"T","y","p","e"," ","'">> \o site_domain \o <<"'"," ","i","n"," ","t","h","e"," ","a","d","d","r","e","s","s"," ","b","a","r">>
Step_type_search(search_term) == <<"T","y","p","e"," ","'">> \o search_term \o <<"'"," ","i","n"," ","t","h","e"," ","s","e","a","r","c","h"," ","b","a","r">>
Step_wait_site(site) == <<"W","a","i","t"," ","f","o","r"," ">> \o site \o <<" ","t","o"," ","l","o","a","d"," ","(","3"," ","s","e","c","o","n","d","s",")">>
Step_click_site(site) == <<"L","o","o","k"," ","f","o","r"," ","a","n","d"," ","c","l","i","c","k"," ","o","n"," ","t","h","e"," ">> \o site \o <<" ","r","e","s","u","l","t">>

\* the steps for 'open' with 'chrome' or 'browser'
OpenSteps(cmd_lower) ==
    IF /\ Contains(cmd_lower, <<"o","p","e","n">>)
       /\ Contains(cmd_lower, <<"c","h","r","o","m","e">>) \/ Contains(cmd_lower, <<"b","r","o","w","s","e","r">>)
    THEN <<Step_open_chrome, Step_wait_chrome>>
    ELSE << >>

\* the index in site_matches of the site visited directly, 0 without one
DirectSite(cmd_lower) ==
    FirstTrue([i \in 1..Len(site_matches) |->
                  \/ Contains(cmd_lower, <<"v","i","s","i","t"," ">> \o site_matches[i][1])
                  \/ Contains(cmd_lower, <<"g","o"," ","t","o"," ">> \o site_matches[i][1])])

\* the steps of a direct site visit, after the steps so far
SiteSteps(cmd_lower, sofar) ==
    LET d == DirectSite(cmd_lower)
    IN IF d = 0 THEN << >>
       ELSE (IF InList(Step_open_chrome, sofar) \/ InList(<<"W","a","i","t"," ","f","o","r"," ","C","h","r","o","m","e">>, sofar)
             THEN << >> ELSE <<Step_open_chrome, Step_wait_chrome>>)
            \o <<Step_focus, Step_type_address(site_matches[d][2]),
                 Step_enter_navigate, Step_wait_site(site_matches[d][1])>>

\* the steps of a search, after the steps so far
SearchSteps(command, cmd_lower, sofar, ai) ==
    IF /\ DirectSite(cmd_lower) = 0
       /\ \/ Contains(cmd_lower, <<"s","e","a","r","c","h">>)
          \/ Contains(cmd_lower, <<"f","i","n","d">>)
          \/ Contains(cmd_lower, <<"l","o","o","k"," ","u","p">>)
    THEN (IF InList(<<"F","o","c","u","s"," ","o","n"," ","t","h","e"," ","a","d","d","r","e","s","s"," ","b","a","r">>, sofar) \/ InList(<<"p","r","e","s","s"," ","C","t","r","l","+","L">>, sofar)
          THEN << >> ELSE <<Step_focus>>)
         \o <<Step_type_search(extract_search_term(command, ai)),
              Step_enter_search, Step_wait_results>>
    ELSE << >>

\* the steps that select a result
ResultSteps(cmd_lower) ==
    LET s == FirstTrue([i \in 1..Len(result_sites) |-> Contains(cmd_lower, result_sites[i])])
    IN IF \E term \in {<<"e","n","t","e","r">>, <<"v","i","s","i","t">>, <<"g","o"," ","t","o">>, <<"c","l","i","c","k">>, <<"a","c","c","e","s","s">>, <<"o","p","e","n"," ","w","e","b","s","i","t","e">>, <<"f","i","r","s","t"," ","r","e","s","u","l","t">>} : Contains(cmd_lower, term)
       THEN IF s # 0
            THEN <<Step_click_site(result_sites[s]), Step_wait_site(result_sites[s])>>
            ELSE IF \E term \in {<<"f","i","r","s","t">>, <<"t","o","p">>, <<"r","e","s","u","l","t">>, <<"w","e","b","s","i","t","e">>} : Contains(cmd_lower, term)
            THEN <<Step_click_first, Step_wait_page>>
            ELSE << >>
       ELSE << >>

\* [c.strip() for c in cmd_lower.split(sep) if c.strip()]
RECURSIVE StrippedNonEmpty(_)
StrippedNonEmpty(pieces) ==
    IF pieces = << >> THEN << >>
    ELSE (IF Strip(Head(pieces)) = << >> THEN << >> ELSE <<Strip(Head(pieces))>>)
         \o StrippedNonEmpty(Tail(pieces))

\* the simple split used when the rules produced no step
SimpleSplit(command, cmd_lower) ==
    IF Contains(cmd_lower, <<" ","a","n","d"," ">>) THEN StrippedNonEmpty(PySplit(cmd_lower, <<" ","a","n","d"," ">>))
    ELSE IF Contains(cmd_lower, <<" ","t","h","e","n"," ">>) THEN StrippedNonEmpty(PySplit(cmd_lower, <<" ","t","h","e","n"," ">>))
    ELSE <<command>>

\* the rule-based parsing of refactor_user_prompt; ai is the oracle's response
\* to ai_extract_search_term
rule_based_parsing(command, ai) ==
    LET cmd_lower == FixTypos(Lower(command), 1)
        s1 == OpenSteps(cmd_lower)
        s2 == s1 \o SiteSteps(cmd_lower, s1)
        s3 == s2 \o SearchSteps(command, cmd_lower, s2, ai)
        s4 == s3 \o ResultSteps(cmd_lower)
    IN IF s4 = << >> THEN SimpleSplit(command, cmd_lower) ELSE s4

-----------------------------------------------------------------------------
(* The oracle path of refactor_user_prompt *)

\* the step kept from one line of the response, << >> when the line gives none
LineSteps(line) ==
    LET stripped == Strip(line)
        parts == PySplitOnce(stripped, <<".">>)
    IN IF stripped = << >> THEN << >>
       ELSE IF IsDigit(stripped[1])
       THEN IF Len(parts) > 1 THEN <<Strip(parts[2])>> ELSE << >>
       ELSE IF \E mark \in {"#", "-", "*"} : StartsWith(stripped, <<mark>>)
       THEN << >>
       ELSE <<stripped>>

\* lines: the steps read from response.content
RECURSIVE LinesOf(_)
LinesOf(rawLines) ==
    IF rawLines = << >> THEN << >>
    ELSE LineSteps(Head(rawLines)) \o LinesOf(Tail(rawLines))

ResponseLines(content) == LinesOf(SplitLines(content))

\* if lines and len(set(lines)) >= 2
Meaningful(lines) == lines # << >> /\ Cardinality(SetOf(lines)) >= 2

\* is_complex = len(command) > 100 or "," in command or " and " in command ...
IsComplex(command) ==
    \/ Len(command) > 100
    \/ Contains(command, <<",">>)
    \/ Contains(command, <<" ","a","n","d"," ">>)
    \/ Contains(command, <<" ","t","h","e","n"," ">>)

\* RealDesktopAgent.refactor_user_prompt: [steps, source, calls].
\* primary and secondary are the oracle's responses to the first and to the
\* backup prompt, ai its response inside extract_search_term; source tells
\* which path produced the steps, calls how many prompts were sent.
refactor_user_prompt(command, primary, secondary, ai) ==
    LET fallback(n) == [steps |-> rule_based_parsing(command, ai),
                        source |-> "rules", calls |-> n]
        using_reduced_prompt ==
            \/ ~IsComplex(command)
            \/ primary.kind = "ok" /\ primary.simplified
    IN IF primary.kind = "raises" THEN fallback(1)
       ELSE IF primary.kind = "ok" /\ Meaningful(ResponseLines(primary.content))
       THEN [steps |-> ResponseLines(primary.content), source |-> "oracle",
             calls |-> 1]
       ELSE IF using_reduced_prompt THEN fallback(1)
       ELSE IF secondary.kind = "ok" /\ Meaningful(ResponseLines(secondary.content))
       THEN [steps |-> ResponseLines(secondary.content), source |-> "oracle",
             calls |-> 2]
       ELSE fallback(2)

-----------------------------------------------------------------------------
(* The decomposer called on its own *)

Cmd_open_search == <<"o","p","e","n"," ","c","h","r","o","m","e"," ","a","n","d"," ","s","e","a","r","c","h"," ","f","o","r"," ","c","a","t","s">>
Cmd_visit_search == <<"o","p","e","n"," ","c","h","r","o","m","e"," ","a","n","d"," ","v","i","s","i","t"," ","g","i","t","h","u","b"," ","a","n","d"," ","s","e","a","r","c","h"," ","f","o","r"," ","c","a","t","s">>
Cmd_and == <<" ","a","n","d"," ">>
Cmd_play == <<"p","l","a","y"," ","m","u","s","i","c">>
Cmd_dance_sing == <<"d","a","n","c","e"," ","a","n","d"," ","s","i","n","g">>
Cmd_browser_first == <<"o","p","e","n"," ","b","r","o","w","s","e","r",","," ","s","e","a","r","c","h"," ","f","o","r"," ","d","o","g","s"," ","t","h","e","n"," ","c","l","i","c","k"," ","t","h","e"," ","f","i","r","s","t"," ","r","e","s","u","l","t">>
Cmd_search_upper == <<"S","e","a","r","c","h"," ","f","o","r"," ","C","a","t","s">>
Cmd_result_page == <<"o","p","e","n"," ","t","h","e"," ","r","e","s","u","l","t"," ","p","a","g","e"," ","i","n"," ","c","h","r","o","m","e"," ","a","n","d"," ","s","e","a","r","c","h"," ","f","o","r"," ","c","a","t","s">>
Cmd_empty == << >>
Cmd_typo == <<"s","e","r","c","h"," ","c","a","t","s">>

Commands ==
    {Cmd_open_search, Cmd_visit_search, Cmd_and, Cmd_play, Cmd_dance_sing, Cmd_browser_first,
     Cmd_search_upper, Cmd_result_page, Cmd_empty, Cmd_typo}

R_numbered == <<"1","."," ","O","p","e","n"," ","C","h","r","o","m","e","\n","2","."," ","T","y","p","e"," ","c","a","t","s","\n">>
R_plain == <<"O","p","e","n"," ","C","h","r","o","m","e","\n","T","y","p","e"," ","c","a","t","s">>
R_empty_item == <<"1","."," ","O","p","e","n"," ","C","h","r","o","m","e","\n","2",".">>
R_duplicate == <<"1","."," ","O","p","e","n"," ","C","h","r","o","m","e","\n","2","."," ","O","p","e","n"," ","C","h","r","o","m","e">>
R_nothing == << >>
R_bullets == <<"-"," ","O","p","e","n"," ","C","h","r","o","m","e","\n","#"," ","T","y","p","e"," ","c","a","t","s","\n","3">>
R_second == <<"1",")"," ","O","p","e","n","\n","2","."," ","G","o","."," ","n","o","w","\n"," ","3","."," ","S","t","o","p">>
R_single == <<"1","."," ","O","n","l","y">>
R_term == <<" ","\"","d","o","g","s","\"","\n">>

PrimaryResponses ==
    {OracleRaises, OracleFailure, OracleOk(R_numbered), OracleOk(R_plain),
     OracleOk(R_empty_item), OracleOk(R_duplicate), OracleOk(R_nothing),
     OracleOk(R_bullets)}

SecondaryResponses == {OracleRaises, OracleFailure, OracleOk(R_second), OracleOk(R_single)}

ExtractResponses == {OracleFailure, OracleOk(R_term)}

\* steps = self.refactor_user_prompt(command) is called
DecomposeCall ==
    /\ pc = "idle"
    /\ \E command \in Commands, primary \in PrimaryResponses,
          secondary \in SecondaryResponses, ai \in ExtractResponses :
          cur' = [command |-> command, primary |-> primary,
                  secondary |-> secondary, ai |-> ai]
    /\ pc' = "rp_called"
    /\ UNCHANGED <<verdict, gate, channel, result, events>>
    /\ UNCHANGED <<ctlVars, cfgVars, seqVars, engVars, trkVars>>

\* refactor_user_prompt returns
DecomposeReturn ==
    /\ pc = "rp_called"
    /\ result' = refactor_user_prompt(cur.command, cur.primary, cur.secondary, cur.ai)
    /\ pc' = "rp_returned"
    /\ UNCHANGED <<cur, verdict, gate, channel, events>>
    /\ UNCHANGED <<ctlVars, cfgVars, seqVars, engVars, trkVars>>

NextDecompose == DecomposeCall \/ DecomposeReturn

SpecDecompose == InitEngineRun /\ [][NextDecompose]_vars

-----------------------------------------------------------------------------
(* Properties of the decomposer *)

\* no rule of the rule-based parsing produces a step for the command
NoPatternMatches(command) ==
    LET cmd_lower == FixTypos(Lower(command), 1)
    IN /\ OpenSteps(cmd_lower) = << >>
       /\ DirectSite(cmd_lower) = 0
       /\ ~(\/ Contains(cmd_lower, <<"s","e","a","r","c","h">>)
            \/ Contains(cmd_lower, <<"f","i","n","d">>)
            \/ Contains(cmd_lower, <<"l","o","o","k"," ","u","p">>))
       /\ ResultSteps(cmd_lower) = << >>

\* C26: for every command and every behaviour of the oracle the decomposer
\* returns at least one step, and when no rule-based pattern matches and the
\* oracle gave nothing usable the result is the single step <<command>>.
C26_AtLeastOneStep ==
    pc = "rp_returned" =>
        /\ Len(result.steps) >= 1
        /\ (result.source = "rules" /\ NoPatternMatches(cur.command))
              => result.steps = <<cur.command>>

\* the response whose lines were returned
UsedResponse == IF result.calls = 1 THEN cur.primary ELSE cur.secondary

\* the non-blank lines of a response, stripped
RECURSIVE NonBlank(_)
NonBlank(rawLines) ==
    IF rawLines = << >> THEN << >>
    ELSE (IF Strip(Head(rawLines)) = << >> THEN << >> ELSE <<Strip(Head(rawLines))>>)
         \o NonBlank(Tail(rawLines))

\* the line is an item of a numbered list: digits, a full stop, the text
Enumerated(line) ==
    /\ IsDigit(line[1])
    /\ Contains(line, <<".">>)
    /\ \A i \in 1..PyFind(line, <<".">>) : IsDigit(line[i])

\* a numbered list with at least two distinct items, none of them empty
NumberedList(content) ==
    LET items == NonBlank(SplitLines(content))
        texts == [i \in 1..Len(items) |-> Strip(From(items[i], PyFind(items[i], <<".">>) + 1))]
    IN /\ \A i \in 1..Len(items) : Enumerated(items[i])
       /\ \A i \in 1..Len(items) : texts[i] # << >>
       /\ Cardinality(SetOf(texts)) >= 2

\* C27: the decomposer returns the oracle's output only when the response is
\* a numbered list that gives at least two distinct lines, all of them
\* non-empty, once the enumeration is stripped; for any other response it
\* returns the rule-based decomposition.
C27_OracleOutputOnlyIfNumberedList ==
    pc = "rp_returned" =>
        /\ result.source = "oracle" =>
              /\ UsedResponse.kind = "ok"
              /\ NumberedList(UsedResponse.content)
              /\ result.steps = ResponseLines(UsedResponse.content)
        /\ result.source = "rules" =>
              result.steps = rule_based_parsing(cur.command, cur.ai)

\* the command holds 'open' with 'chrome' or 'browser' and a 'search for ' phrase
OpenAndSearchFor(command) ==
    /\ Contains(Lower(command), <<"o","p","e","n">>)
    /\ Contains(Lower(command), <<"c","h","r","o","m","e">>) \/ Contains(Lower(command), <<"b","r","o","w","s","e","r">>)
    /\ Contains(Lower(command), <<"s","e","a","r","c","h"," ","f","o","r"," ">>)

\* the term of the command: what follows 'search for ' up to the next connector
SearchedTerm(command) ==
    LET after == From(command, PyFind(Lower(command), <<"s","e","a","r","c","h"," ","f","o","r"," ">>) + Len(<<"s","e","a","r","c","h"," ","f","o","r"," ">>))
        c == FirstTrue([i \in 1..Len(connectors) |-> Contains(Lower(after), connectors[i])])
    IN Strip(IF c = 0 THEN after
             ELSE Slice(after, 0, PyFind(Lower(after), connectors[c])))

\* the steps open Chrome, focus the address bar, type the term in the search
\* bar, press Enter and wait, in this order
OpenFocusTypeEnterWait(stepList, term) ==
    \E a \in 1..Len(stepList) :
       /\ stepList[a] = Step_open_chrome
       /\ \E b \in (a + 1)..Len(stepList) :
             /\ stepList[b] = Step_focus
             /\ \E c \in (b + 1)..Len(stepList) :
                   /\ stepList[c] = Step_type_search(term)
                   /\ \E d \in (c + 1)..Len(stepList) :
                         /\ stepList[d] = Step_enter_search
                         /\ \E e \in (d + 1)..Len(stepList) :
                               stepList[e] = Step_wait_results

\* C28: when the oracle gives nothing usable, the rule-based decomposition of
\* a command with 'open', 'chrome' or 'browser' and 'search for <term>' has at
\* least 4 steps: Open Google Chrome, focus the address bar, Type '<term>' in
\* the search bar, press Enter, wait, in this order.
C28_OpenAndSearchDecomposition ==
    (pc = "rp_returned" /\ result.source = "rules" /\ OpenAndSearchFor(cur.command))
        => /\ Len(result.steps) >= 4
           /\ OpenFocusTypeEnterWait(result.steps, SearchedTerm(cur.command))

\* the command of the scenario decomposes as described
ScenarioCommandDecomposition ==
    (pc = "rp_returned" /\ result.source = "rules" /\ cur.command = Cmd_open_search)
        => result.steps = <<Step_open_chrome, Step_wait_chrome, Step_focus,
                            Step_type_search(<<"c","a","t","s">>), Step_enter_search,
                            Step_wait_results>>

-----------------------------------------------------------------------------
(* utils/ollama_client.py: OllamaClient.generate_text *)

models_max_retries == 3     \* CONFIG.models.max_retries

\* the text put in place of the removed middle of a prompt
ElisionMarker == <<"\n",".",".",".","[","e","x","a","m","p","l","e","s"," ","o","m","i","t","t","e","d"," ","f","o","r"," ","b","r","e","v","i","t","y","]",".",".",".","\n">>

\* s[-n:]
LastChars(s, n) == IF n = 0 \/ n >= Len(s) THEN s ELSE From(s, Len(s) - n)

\* reduction_percentage in quarters: 0.25 * (attempt + 1), capped at 0.75
ReductionQuarters_constant(attempt) == 1
ReductionQuarters(attempt) == IF attempt + 1 > 3 THEN 3 ELSE attempt + 1

\* reduced_prompt: the start and the end of the original around the marker
ReducedPrompt(original_prompt, attempt) ==
    LET keep_chars == (Len(original_prompt) * (4 - ReductionQuarters(attempt))) \div 4
        start_portion == (keep_chars * 2) \div 5
        end_portion == keep_chars - start_portion
    IN Slice(original_prompt, 0, start_portion) \o ElisionMarker
       \o LastChars(original_prompt, end_portion)

\* the line of the prompt that names the command, 0 without one
CommandLine(promptLines) ==
    FirstTrue([i \in 1..Len(promptLines) |->
                  \/ Contains(promptLines[i], <<"U","S","E","R"," ","C","O","M","M","A","N","D">>)
                  \/ Contains(Lower(promptLines[i]), <<"c","o","m","m","a","n","d",":">>)])

\* simplified_prompt
SimplifiedPrompt(original_prompt) ==
    LET promptLines == PySplit(original_prompt, <<"\n">>)
        k == CommandLine(promptLines)
    IN IF k # 0
       THEN <<"B","r","e","a","k"," ","t","h","i","s"," ","c","o","m","m","a","n","d"," ","i","n","t","o"," ","n","u","m","b","e","r","e","d"," ","s","t","e","p","s",":"," ">> \o promptLines[k] \o <<"\n","B","e"," ","c","o","n","c","i","s","e","."," ","J","u","s","t"," ","l","i","s","t"," ","t","h","e"," ","s","t","e","p","s",".">>
       ELSE LastChars(original_prompt, Len(original_prompt) \div 5)

\* the ModelResponse returned by the outer except clause; it raises nothing
CaughtResponse_propagates(error) == [success |-> FALSE, content |-> << >>, error |-> error, raised |-> TRUE]
CaughtResponse(error) == [success |-> FALSE, content |-> << >>, error |-> error, raised |-> FALSE]

\* the ModelResponse returned for a response with the given status
StatusResponse(outcome) ==
    IF outcome = "200"
    THEN [success |-> TRUE, content |-> <<"o","k">>, error |-> "none", raised |-> FALSE]
    ELSE IF outcome = "200_bad_json" THEN CaughtResponse("json")
    ELSE [success |-> FALSE, content |-> << >>, error |-> "HTTP 500", raised |-> FALSE]

\* what self.session.post does: a response with status 200 (whose body may
\* not be JSON) or 500, a timeout, or another exception
PostOutcomes == {"200", "200_bad_json", "500", "timeout", "error"}

\* a run of digits of length n
Filler(n) == [i \in 1..n |-> Digits[(i % 10) + 1]]

P_brief == <<"l","i","s","t"," ","t","h","e"," ","s","t","e","p","s">>
P_command == <<"c","o","m","m","a","n","d",":"," ","x">>
P_1000 == Filler(1000)
P_1001 == Filler(1001)
P_1500 == Filler(1500)
P_2400 == Filler(2381) \o <<"\n","U","S","E","R"," ","C","O","M","M","A","N","D",":"," ","\"","x","\"","\n">>

Prompts == {P_brief, P_command, P_1000, P_1001, P_1500, P_2400}

\* generate_text(model, prompt) up to the head of the while loop
generate_text ==
    /\ pc = "idle"
    /\ \E prompt \in Prompts, available \in BOOLEAN :
          /\ cur' = [original_prompt |-> prompt, current_prompt |-> prompt,
                     payload_prompt |-> prompt, attempt |-> 0]
          /\ IF available
             THEN pc' = "gt_loop" /\ result' = result
             ELSE /\ pc' = "gt_returned"
                  /\ result' = [success |-> FALSE, content |-> << >>,
                                error |-> "not available", raised |-> FALSE]
    /\ events' = << >>
    /\ UNCHANGED <<verdict, gate, channel>>
    /\ UNCHANGED <<ctlVars, cfgVars, seqVars, engVars, trkVars>>

\* one pass of the while loop: a request and what follows it
Post ==
    /\ pc = "gt_loop"
    /\ IF cur.attempt < models_max_retries
       THEN \E outcome \in PostOutcomes :
          /\ events' = Append(events, [prompt |-> cur.payload_prompt,
                                       kind |-> "standard", outcome |-> outcome])
          /\ IF outcome = "timeout"
             THEN LET attempt == cur.attempt + 1
                      reduced == ReducedPrompt(cur.original_prompt, attempt)
                  IN /\ result' = result
                     /\ IF attempt >= models_max_retries
                        THEN /\ pc' = "gt_minimal"
                             /\ cur' = [cur EXCEPT !.attempt = attempt,
                                           !.payload_prompt =
                                               SimplifiedPrompt(cur.original_prompt)]
                        ELSE /\ pc' = "gt_loop"
                             /\ cur' = IF Len(cur.current_prompt) > 1000
                                       THEN [cur EXCEPT !.attempt = attempt,
                                                        !.current_prompt = reduced,
                                                        !.payload_prompt = reduced]
                                       ELSE [cur EXCEPT !.attempt = attempt]
             ELSE /\ pc' = "gt_returned"
                  /\ cur' = cur
                  /\ result' = IF outcome = "error" THEN CaughtResponse("error")
                               ELSE StatusResponse(outcome)
       ELSE /\ pc' = "gt_returned"
            /\ result' = CaughtResponse("response is not bound")
            /\ UNCHANGED <<cur, events>>
    /\ UNCHANGED <<verdict, gate, channel>>
    /\ UNCHANGED <<ctlVars, cfgVars, seqVars, engVars, trkVars>>

\* the request with the simplified prompt, after the last timeout
PostSimplified ==
    /\ pc = "gt_minimal"
    /\ \E outcome \in PostOutcomes :
          /\ events' = Append(events, [prompt |-> cur.payload_prompt,
                                       kind |-> "minimal", outcome |-> outcome])
          /\ result' = IF outcome = "timeout" THEN CaughtResponse("timeout")
                       ELSE IF outcome = "error" THEN CaughtResponse("error")
                       ELSE StatusResponse(outcome)
    /\ pc' = "gt_returned"
    /\ UNCHANGED <<cur, verdict, gate, channel>>
    /\ UNCHANGED <<ctlVars, cfgVars, seqVars, engVars, trkVars>>

NextOllama == generate_text \/ Post \/ PostSimplified

\* requests carry a timeout, so every request made is answered or times out
\* and the call goes on
SpecOllama ==
    InitEngineRun /\ [][NextOllama]_vars /\ WF_vars(Post) /\ WF_vars(PostSimplified)

-----------------------------------------------------------------------------
(* Properties of generate_text *)

\* the requests of the call that carried the standard or a truncated prompt
StandardRequests == {k \in 1..Len(events) : events[k].kind = "standard"}

\* the requests of the call that carried the simplified prompt
MinimalRequests == {k \in 1..Len(events) : events[k].kind = "minimal"}

\* C29: generate_text ends for every pattern of timeouts and errors and
\* returns a ModelResponse without raising; it sends at most max_retries
\* requests with the standard or a truncated prompt and at most one with the
\* minimal prompt; success is true only if a request completed with status
\* 200, and false when the minimal-prompt request timed out as well.
C29_GenerateTextEndsWithResponse ==
    /\ [](/\ Cardinality(StandardRequests) <= models_max_retries
          /\ Cardinality(MinimalRequests) <= 1)
    /\ [](pc = "gt_returned" =>
            /\ ~result.raised
            /\ result.success =>
                  \E k \in 1..Len(events) : events[k].outcome = "200"
            /\ (events # << >> /\ events[Len(events)].outcome = "timeout")
                  => ~result.success)
    /\ (pc = "gt_loop") ~> (pc = "gt_returned")

\* three requests and the minimal-prompt request all timed out
C29_Witness ==
    /\ pc = "gt_returned"
    /\ Len(events) = models_max_retries + 1
    /\ \A k \in 1..Len(events) : events[k].outcome = "timeout"
    /\ events[Len(events)].kind = "minimal"
    /\ ~result.success /\ ~result.raised

\* the minimal-prompt request succeeded after three timeouts
C29_WitnessMinimalSucceeds ==
    /\ pc = "gt_returned"
    /\ Len(events) = models_max_retries + 1
    /\ events[Len(events)].outcome = "200"
    /\ result.success

\* p is a prefix of original, the elision marker, a suffix of original
PrefixMarkerSuffix(p, original) ==
    \E a \in 0..(Len(p) - Len(ElisionMarker)) :
       LET b == Len(p) - Len(ElisionMarker) - a
       IN /\ b <= Len(original) /\ a <= Len(original)
          /\ \A i \in 1..a : p[i] = original[i]
          /\ \A i \in 1..Len(ElisionMarker) : p[a + i] = ElisionMarker[i]
          /\ \A i \in 1..b : p[Len(p) - b + i] = original[Len(original) - b + i]

\* the requests sent as a retry after a timeout, the minimal one excluded
Retries == {k \in StandardRequests : k > 1}

\* C30 as stated: every retry after a timeout carries a strictly shorter
\* prompt than the request before it, and the truncated prompt is a prefix of
\* the original, the elision marker and a suffix of the original.
C30_EveryRetryShorter ==
    \A k \in Retries :
       /\ Len(events[k].prompt) < Len(events[k - 1].prompt)
       /\ PrefixMarkerSuffix(events[k].prompt, cur.original_prompt)

\* C30 amended: a retry after a timeout of a prompt longer than 1000
\* characters carries a strictly shorter prompt, made of a prefix of the
\* original, the elision marker and a suffix of the original; a prompt of
\* 1000 characters or fewer is sent again unchanged.
C30_LongPromptsShrink ==
    \A k \in Retries :
       IF Len(events[k - 1].prompt) > 1000
       THEN /\ Len(events[k].prompt) < Len(events[k - 1].prompt)
            /\ PrefixMarkerSuffix(events[k].prompt, cur.original_prompt)
       ELSE events[k].prompt = events[k - 1].prompt

\* a prompt of 2400 characters was cut twice: 2400, 1238 and 638 characters
C30_Witness ==
    /\ Len(events) >= 3
    /\ cur.original_prompt = P_2400
    /\ Len(events[1].prompt) = 2400
    /\ Len(events[2].prompt) = 1238
    /\ Len(events[3].prompt) = 638

-----------------------------------------------------------------------------
(* components/perceiver.py: OCRProcessor, UIElementParser,
   VisionLanguageProcessor and Perceiver.  Confidences are exact fractions
   <<numerator, denominator>> with a positive denominator. *)

RECURSIVE Gcd(_, _)
Gcd(a, b) == IF b = 0 THEN a ELSE IF a % b >= 0 THEN Gcd(b, a % b) ELSE b

\* the fraction in lowest terms
Reduced(q) ==
    LET g == Gcd(IF q[1] < 0 THEN -q[1] ELSE q[1], q[2])
    IN <<q[1] \div g, q[2] \div g>>

RatLess(a, b) == a[1] * b[2] < b[1] * a[2]
RatMin(a, b) == IF RatLess(b, a) THEN b ELSE a
RatOver(q, n) == Reduced(<<Reduced(q)[1], Reduced(q)[2] * n>>)

\* a + b over the least common denominator
RatAdd(a, b) ==
    LET x == Reduced(a)
        y == Reduced(b)
        g == Gcd(x[2], y[2])
    IN Reduced(<<x[1] * (y[2] \div g) + y[1] * (x[2] \div g),
                 (x[2] \div g) * y[2]>>)

\* qs[1] + ... + qs[n]
RECURSIVE RatSumTo(_, _)
RatSumTo(qs, n) == IF n = 0 THEN <<0, 1>> ELSE RatAdd(qs[n], RatSumTo(qs, n - 1))

RatSum(qs) == RatSumTo(qs, Len(qs))

\* np.mean(qs) of a non-empty list
RatMean(qs) == RatOver(RatSum(qs), Len(qs))

\* CONFIG.perceiver
min_ocr_confidence == <<6, 10>>
enable_ui_parsing == TRUE
enable_vlm_description == TRUE

\* the value extract_text returns when the image cannot be read or OCR raises
ocr_failed == [text |-> << >>, confidence |-> <<0, 1>>, words |-> << >>]

\* a filter that also keeps a word whose confidence equals the minimum
Confident_at_threshold(word, conf) ==
    word # << >> /\ ~RatLess(<<conf, 1>>, <<min_ocr_confidence[1] * 100, min_ocr_confidence[2]>>)

\* conf > CONFIG.perceiver.min_ocr_confidence * 100, for a non-empty word
Confident(word, conf) ==
    word # << >> /\ RatLess(<<min_ocr_confidence[1] * 100, min_ocr_confidence[2]>>, <<conf, 1>>)

\* " ".join(parts)
RECURSIVE JoinSpaces(_)
JoinSpaces(parts) ==
    IF parts = << >> THEN << >>
    ELSE IF Len(parts) = 1 THEN parts[1]
    ELSE parts[1] \o <<" ">> \o JoinSpaces(Tail(parts))

\* the loop of extract_text over the rows of pytesseract's table, from row i
RECURSIVE FilterWords(_, _, _)
FilterWords(data, i, acc) ==
    IF i > Len(data) THEN acc
    ELSE LET word == Strip(data[i].text)
             conf == data[i].conf
         IN FilterWords(data, i + 1,
               IF Confident(word, conf)
               THEN [words |-> Append(acc.words,
                                  [text |-> word, confidence |-> <<conf, 100>>,
                                   bbox |-> data[i].bbox]),
                     text_parts |-> Append(acc.text_parts, word),
                     confidences |-> Append(acc.confidences, conf)]
               ELSE acc)

\* OCRProcessor.extract_text on an image whose OCR table is data; conf / 100.0
\* of every retained word is summed over the common denominator 100
extract_text(data, ocrOk) ==
    IF ~ocrOk THEN ocr_failed
    ELSE LET kept == FilterWords(data, 1, [words |-> << >>, text_parts |-> << >>,
                                           confidences |-> << >>])
             n == Len(kept.confidences)
             total == RatSum([k \in 1..n |-> <<kept.confidences[k], 1>>])
         IN [text |-> JoinSpaces(kept.text_parts),
             confidence |-> IF n > 0 THEN Reduced(<<total[1], 100 * n>>) ELSE <<0, 1>>,
             words |-> kept.words,
             word_count |-> Len(kept.words)]

NoElement == "None"

\* a classification that tries the input rule before the button rule
classify_element_input_first(area, aspect_ratio, width, height) ==
    IF /\ 500 < area /\ area < 100000
       /\ RatLess(<<2, 1>>, aspect_ratio)
       /\ height < 50
    THEN "input"
    ELSE IF /\ 1000 < area /\ area < 50000
            /\ RatLess(<<2, 10>>, aspect_ratio) /\ RatLess(aspect_ratio, <<5, 1>>)
            /\ 20 < width /\ width < 400 /\ 15 < height /\ height < 100
    THEN "button"
    ELSE IF /\ 400 < area /\ area < 10000
            /\ RatLess(<<5, 10>>, aspect_ratio) /\ RatLess(aspect_ratio, <<2, 1>>)
    THEN "icon"
    ELSE IF area > 50000 THEN "panel"
    ELSE NoElement

\* UIElementParser._classify_element; aspect_ratio is the fraction w / h
classify_element(area, aspect_ratio, width, height) ==
    IF /\ 1000 < area /\ area < 50000
       /\ RatLess(<<2, 10>>, aspect_ratio) /\ RatLess(aspect_ratio, <<5, 1>>)
       /\ 20 < width /\ width < 400 /\ 15 < height /\ height < 100
    THEN "button"
    ELSE IF /\ 500 < area /\ area < 100000
            /\ RatLess(<<2, 1>>, aspect_ratio)
            /\ height < 50
    THEN "input"
    ELSE IF /\ 400 < area /\ area < 10000
            /\ RatLess(<<5, 10>>, aspect_ratio) /\ RatLess(aspect_ratio, <<2, 1>>)
    THEN "icon"
    ELSE IF area > 50000 THEN "panel"
    ELSE NoElement

\* the element detect_elements appends for contour c, if any
Element(c) ==
    LET element_type == classify_element(c.area, <<c.w, c.h>>, c.w, c.h)
    IN IF c.area < 100 \/ element_type = NoElement THEN << >>
       ELSE <<[type |-> element_type,
               bbox |-> [x |-> c.x, y |-> c.y, width |-> c.w, height |-> c.h],
               center |-> [x |-> c.x + c.w \div 2, y |-> c.y + c.h \div 2],
               area |-> c.area,
               confidence |-> RatMin(<<1 * 10000, 10000>>, <<c.area, 10000>>)]>>

\* the elements kept by the loop of detect_elements over contours 1..n
RECURSIVE Classified(_, _)
Classified(contours, n) ==
    IF n = 0 THEN << >>
    ELSE Classified(contours, n - 1) \o Element(contours[n])

\* elements.sort(key = confidence, reverse = True): a stable sort, so elements
\* of equal confidence keep their order
SortedByConfidence(elements) ==
    LET n == Len(elements)
        \* the place of element i: after every element of higher confidence
        \* and after the earlier elements of the same confidence
        place(i) == 1 + Cardinality({j \in 1..n :
                         \/ RatLess(elements[i].confidence, elements[j].confidence)
                         \/ /\ j < i
                            /\ ~RatLess(elements[j].confidence, elements[i].confidence)})
    IN [p \in 1..n |-> elements[CHOOSE i \in 1..n : place(i) = p]]

\* the slice elements[:50]
top_elements == 50

\* UIElementParser.detect_elements on an image with these contours
detect_elements(contours, cvOk) ==
    IF ~cvOk THEN << >>
    ELSE LET elements == SortedByConfidence(Classified(contours, Len(contours)))
         IN SubSeq(elements, 1, IF Len(elements) < top_elements THEN Len(elements)
                                 ELSE top_elements)

VisionAnalysis == <<"V","i","s","i","o","n"," ","a","n","a","l","y","s","i","s">>

\* VisionLanguageProcessor.analyze_screenshot; outcome is what analyze_image did
analyze_screenshot(content, outcome) ==
    IF ~enable_vlm_description THEN << >>
    ELSE IF outcome = "success" THEN content
    ELSE IF outcome = "unsuccessful"
    THEN VisionAnalysis \o <<" ","u","n","a","v","a","i","l","a","b","l","e",":"," ","t","i","m","e","o","u","t">>
    ELSE VisionAnalysis \o <<" ","e","r","r","o","r",":"," ","r","e","f","u","s","e","d">>

\* confidence[1] summed over elements 1..n; every element confidence is a
\* fraction over 10000
RECURSIVE ConfidenceTotal(_, _)
ConfidenceTotal(elements, n) ==
    IF n = 0 THEN 0 ELSE elements[n].confidence[1] + ConfidenceTotal(elements, n - 1)

\* np.mean([elem["confidence"] for elem in ui_elements])
MeanConfidence(elements) ==
    Reduced(<<ConfidenceTotal(elements, Len(elements)), 10000 * Len(elements)>>)

\* Perceiver._calculate_confidence
calculate_confidence(ocr_data, ui_elements, vlm_description) ==
    LET ocr == IF RatLess(<<0, 1>>, ocr_data.confidence)
               THEN <<RatMin(RatOver(ocr_data.confidence, 100), <<1, 1>>)>>
               ELSE << >>
        ui == IF ui_elements # << >>
              THEN LET ui_conf == MeanConfidence(ui_elements)
                   IN <<RatMin(RatOver(ui_conf, 100), <<1, 1>>)>>
              ELSE << >>
        vlm == IF vlm_description # << >> /\ ~StartsWith(vlm_description, VisionAnalysis)
               THEN <<<<8, 10>>>>
               ELSE << >>
        scores == ocr \o ui \o vlm
    IN IF scores # << >> THEN RatMean(scores) ELSE <<0, 1>>

\* OCR tables as pytesseract.image_to_data returns them: one row per box, -1
\* as the confidence of a box without a word
D_example == <<[text |-> <<"o","k">>, conf |-> 90, bbox |-> [x |-> 0, y |-> 0, width |-> 8, height |-> 8]],
     [text |-> <<"x","x">>, conf |-> 30, bbox |-> [x |-> 10, y |-> 0, width |-> 8, height |-> 8]]>>
D_threshold == <<[text |-> <<"a","t">>, conf |-> 60, bbox |-> [x |-> 0, y |-> 0, width |-> 8, height |-> 8]],
     [text |-> <<"u","p">>, conf |-> 61, bbox |-> [x |-> 10, y |-> 0, width |-> 8, height |-> 8]]>>
D_blank == <<[text |-> <<>>, conf |-> -1, bbox |-> [x |-> 0, y |-> 0, width |-> 8, height |-> 8]],
     [text |-> <<" ">>, conf |-> 95, bbox |-> [x |-> 10, y |-> 0, width |-> 8, height |-> 8]],
     [text |-> <<"h","i">>, conf |-> 96, bbox |-> [x |-> 20, y |-> 0, width |-> 8, height |-> 8]]>>
D_padded == <<[text |-> <<" ","a"," ">>, conf |-> 70, bbox |-> [x |-> 0, y |-> 0, width |-> 8, height |-> 8]],
     [text |-> <<"n","o">>, conf |-> 59, bbox |-> [x |-> 10, y |-> 0, width |-> 8, height |-> 8]],
     [text |-> <<"b">>, conf |-> 80, bbox |-> [x |-> 20, y |-> 0, width |-> 8, height |-> 8]],
     [text |-> <<"c">>, conf |-> 65, bbox |-> [x |-> 30, y |-> 0, width |-> 8, height |-> 8]]>>
D_faint == <<[text |-> <<"n","o">>, conf |-> 10, bbox |-> [x |-> 0, y |-> 0, width |-> 8, height |-> 8]],
     [text |-> <<>>, conf |-> -1, bbox |-> [x |-> 10, y |-> 0, width |-> 8, height |-> 8]]>>
D_nothing == << >>

OcrTables == {D_example, D_threshold, D_blank, D_padded, D_faint, D_nothing}

Areas == {99, 100, 401, 501, 1001, 9999, 10000, 49999, 50000, 50001, 99999, 100000}

\* width and height of bounding rectangles, on and next to every threshold
Rectangles ==
    {<<21, 16>>, <<20, 60>>, <<21, 15>>, <<399, 99>>, <<400, 99>>, <<399, 100>>,
     <<100, 30>>, <<100, 50>>, <<102, 49>>, <<98, 49>>, <<250, 50>>, <<249, 50>>,
     <<50, 250>>, <<51, 250>>, <<30, 60>>, <<31, 60>>, <<60, 30>>, <<59, 30>>,
     <<1000, 40>>, <<1000, 600>>, <<300, 300>>, <<2100, 49>>}

\* a contour: its area and its bounding rectangle, which encloses it
Contours ==
    {[area |-> a, x |-> 4, y |-> 6, w |-> r[1], h |-> r[2]] :
        a \in Areas,
        r \in Rectangles}

C_window ==
    <<[area |-> 2000, x |-> 0, y |-> 0, w |-> 100, h |-> 30],
      [area |-> 50, x |-> 5, y |-> 5, w |-> 10, h |-> 10],
      [area |-> 800, x |-> 200, y |-> 0, w |-> 30, h |-> 30],
      [area |-> 200000, x |-> 0, y |-> 0, w |-> 1000, h |-> 600],
      [area |-> 2000, x |-> 300, y |-> 0, w |-> 50, h |-> 50]>>

\* 53 contours of buttons and icons with repeated and with distinct areas
C_crowded ==
    [i \in 1..53 |-> [area |-> 600 + 300 * ((i * 7) % 11), x |-> 10 * i, y |-> 0,
                      w |-> 60, h |-> 40]]

Descriptions == {<<"A"," ","d","e","s","k","t","o","p">>, << >>, VisionAnalysis \o <<":"," ","a"," ","d","e","s","k","t","o","p">>}

\* what is on the screen: the OCR table, the contours and the answer the
\* vision model would give
Frames ==
    {[data |-> d, contours |-> C_window, description |-> s] :
        d \in OcrTables, s \in Descriptions}
    \cup {[data |-> D_example, contours |-> <<c>>, description |-> << >>] :
            c \in {k \in Contours : k.area <= k.w * k.h}}
    \cup {[data |-> D_faint, contours |-> c, description |-> << >>] :
            c \in {C_crowded, << >>}}

Analyzers == <<"ocr", "ui", "vlm">>

\* perceive_screen up to the check of screenshot_path: captured is whether
\* step 1 gave the path of an existing file
perceive_screen ==
    /\ pc = "idle"
    /\ \E frame \in Frames, captured \in BOOLEAN :
          IF captured
          THEN /\ pc' = "pv_ocr"
               /\ cur' = [frame |-> frame, failed |-> {}]
               /\ result' = result
          ELSE /\ pc' = "pv_returned"
               /\ cur' = [frame |-> frame, failed |-> {"capture"}]
               /\ result' = Null
    /\ events' = << >>
    /\ UNCHANGED <<verdict, gate, channel>>
    /\ UNCHANGED <<ctlVars, cfgVars, seqVars, engVars, trkVars>>

\* step 2: self.ocr_processor.extract_text(screenshot_path)
RunOcr ==
    /\ pc = "pv_ocr"
    /\ \E ocrOk \in BOOLEAN :
          cur' = [frame |-> cur.frame,
                  failed |-> IF ocrOk THEN cur.failed ELSE cur.failed \cup {"ocr"},
                  ocr_data |-> extract_text(cur.frame.data, ocrOk)]
    /\ pc' = "pv_ui"
    /\ events' = Append(events, "ocr")
    /\ UNCHANGED <<verdict, gate, channel, result>>
    /\ UNCHANGED <<ctlVars, cfgVars, seqVars, engVars, trkVars>>

\* step 3: self.ui_parser.detect_elements(screenshot_path)
RunDetect ==
    /\ pc = "pv_ui"
    /\ IF enable_ui_parsing
       THEN /\ \E cvOk \in BOOLEAN :
                 cur' = [frame |-> cur.frame,
                         failed |-> IF cvOk THEN cur.failed ELSE cur.failed \cup {"ui"},
                         ocr_data |-> cur.ocr_data,
                         ui_elements |-> detect_elements(cur.frame.contours, cvOk)]
            /\ events' = Append(events, "ui")
       ELSE /\ cur' = [frame |-> cur.frame, failed |-> cur.failed,
                       ocr_data |-> cur.ocr_data, ui_elements |-> << >>]
            /\ events' = events
    /\ pc' = "pv_vlm"
    /\ UNCHANGED <<verdict, gate, channel, result>>
    /\ UNCHANGED <<ctlVars, cfgVars, seqVars, engVars, trkVars>>

\* step 4: self.vlm_processor.analyze_screenshot(screenshot_path)
RunDescribe ==
    /\ pc = "pv_vlm"
    /\ IF enable_vlm_description
       THEN /\ \E outcome \in {"success", "unsuccessful", "raises"} :
                 cur' = [frame |-> cur.frame,
                         failed |-> IF outcome = "success" THEN cur.failed
                                    ELSE cur.failed \cup {"vlm"},
                         ocr_data |-> cur.ocr_data,
                         ui_elements |-> cur.ui_elements,
                         vlm_description |->
                             analyze_screenshot(cur.frame.description, outcome)]
            /\ events' = Append(events, "vlm")
       ELSE /\ cur' = [frame |-> cur.frame, failed |-> cur.failed,
                       ocr_data |-> cur.ocr_data, ui_elements |-> cur.ui_elements,
                       vlm_description |-> << >>]
            /\ events' = events
    /\ pc' = "pv_assemble"
    /\ UNCHANGED <<verdict, gate, channel, result>>
    /\ UNCHANGED <<ctlVars, cfgVars, seqVars, engVars, trkVars>>

\* steps 5 and 6 and the return; opened is whether Image.open read the file
Assemble ==
    /\ pc = "pv_assemble"
    /\ \E opened \in BOOLEAN :
          result' = IF opened
                    THEN [ocr_text |-> cur.ocr_data.text,
                          ui_elements |-> cur.ui_elements,
                          vlm_description |-> cur.vlm_description,
                          confidence_score |->
                              calculate_confidence(cur.ocr_data, cur.ui_elements,
                                                   cur.vlm_description)]
                    ELSE Null
    /\ pc' = "pv_returned"
    /\ UNCHANGED <<cur, verdict, gate, channel, events>>
    /\ UNCHANGED <<ctlVars, cfgVars, seqVars, engVars, trkVars>>

NextPerceive == perceive_screen \/ RunOcr \/ RunDetect \/ RunDescribe \/ Assemble

SpecPerceive == InitEngineRun /\ [][NextPerceive]_vars

\* perceive_screen has returned a ScreenContext
Perceived == pc = "pv_returned" /\ result # Null

\* the mean of the confidences of the words of an OCR result
MeanWordConfidence(words) == RatMean([k \in 1..Len(words) |-> words[k].confidence])

\* the sub-scores of a perception: the OCR mean word confidence if a word was
\* retained, the mean element confidence if an element was detected, 0.8 if
\* the vision model gave a non-empty description
SubScores ==
    (IF cur.ocr_data.words # << >>
     THEN <<MeanWordConfidence(cur.ocr_data.words)>> ELSE << >>)
    \o (IF result.ui_elements # << >>
        THEN <<MeanConfidence(result.ui_elements)>> ELSE << >>)
    \o (IF "vlm" \notin cur.failed /\ result.vlm_description # << >>
        THEN <<<<8, 10>>>> ELSE << >>)

\* C31: the confidence_score of every ScreenContext lies in [0,1] and is the
\* arithmetic mean of exactly the sub-scores that were computed (OCR mean word
\* confidence, mean UI-element confidence, 0.8 for a non-empty description),
\* and 0 when there is none.
C31_ConfidenceIsMeanOfSubScores ==
    Perceived =>
       /\ InUnitInterval(result.confidence_score)
       /\ result.confidence_score =
             IF SubScores = << >> THEN <<0, 1>> ELSE RatMean(SubScores)

\* what the code keeps of C31: the score lies in [0,1] and is 0 when no
\* sub-score was computed
ConfidenceWithinUnitInterval ==
    Perceived =>
       /\ InUnitInterval(result.confidence_score)
       /\ SubScores = << >> => result.confidence_score = <<0, 1>>

\* C32: when the capture succeeds a ScreenContext is returned whatever
\* analyzers fail, a failed analyzer leaves its own field empty and the fields
\* of the others are what they computed; when the capture fails the result is
\* None and no analyzer ran.
C32_FailuresDegradeOwnFieldOnly ==
    pc = "pv_returned" =>
       IF "capture" \in cur.failed
       THEN result = Null /\ events = << >>
       ELSE /\ result # Null
            /\ result.ocr_text = IF "ocr" \in cur.failed THEN << >>
                                 ELSE extract_text(cur.frame.data, TRUE).text
            /\ result.ui_elements = IF "ui" \in cur.failed THEN << >>
                                    ELSE detect_elements(cur.frame.contours, TRUE)
            /\ result.vlm_description = IF "vlm" \in cur.failed THEN << >>
                                        ELSE cur.frame.description

\* what the code keeps of C32: the OCR and element fields, and no analyzer
\* after a failed capture
OcrAndElementsDegradeAlone ==
    pc = "pv_returned" =>
       IF "capture" \in cur.failed
       THEN result = Null /\ events = << >>
       ELSE result # Null =>
            /\ result.ocr_text = IF "ocr" \in cur.failed THEN << >>
                                 ELSE extract_text(cur.frame.data, TRUE).text
            /\ result.ui_elements = IF "ui" \in cur.failed THEN << >>
                                    ELSE detect_elements(cur.frame.contours, TRUE)
            /\ "vlm" \notin cur.failed => result.vlm_description = cur.frame.description

\* extract_text has returned for the image of the frame, OCR having worked
OcrDone == "ocr_data" \in DOMAIN cur /\ "ocr" \notin cur.failed

\* the rows whose stripped word is not empty and whose confidence, as a
\* fraction of 100, strictly exceeds min_ocr_confidence
Retained(data) ==
    {i \in 1..Len(data) :
        /\ Strip(data[i].text) # << >>
        /\ data[i].conf * min_ocr_confidence[2] > 100 * min_ocr_confidence[1]}

\* the k-th retained row, in the order of the table
NthRetained(data, k) ==
    CHOOSE i \in Retained(data) : Cardinality({j \in Retained(data) : j <= i}) = k

\* C33: extract_text retains exactly the non-empty words whose confidence
\* strictly exceeds min_ocr_confidence, in their order: the words list holds
\* them, the text is those words joined by single spaces, and the confidence
\* is their mean, 0 when none is retained.
C33_RetainsConfidentWordsInOrder ==
    OcrDone =>
       LET data == cur.frame.data
           out == cur.ocr_data
           n == Cardinality(Retained(data))
           word(k) == Strip(data[NthRetained(data, k)].text)
       IN /\ Len(out.words) = n
          /\ \A k \in 1..n :
                /\ out.words[k].text = word(k)
                /\ out.words[k].confidence = <<data[NthRetained(data, k)].conf, 100>>
          /\ out.text = JoinSpaces([k \in 1..n |-> word(k)])
          /\ \A k \in 1..Len(out.text) :
                out.text[k] = " " => k > 1 /\ k < Len(out.text) /\ out.text[k + 1] # " "
          /\ out.confidence = IF n = 0 THEN <<0, 1>>
                              ELSE MeanWordConfidence(out.words)

\* words ok at 90 and xx at 30 gave the text 'ok'
C33_Witness ==
    /\ OcrDone
    /\ cur.frame.data = D_example
    /\ cur.ocr_data.text = <<"o", "k">>
    /\ cur.ocr_data.confidence = <<9, 10>>

\* a padded word, a weak word and two more words gave 'a b c'
C33_WitnessOrder ==
    /\ OcrDone
    /\ cur.frame.data = D_padded
    /\ cur.ocr_data.text = <<"a", " ", "b", " ", "c">>
    /\ Len(cur.ocr_data.words) = 3

\* the first-match rule of element classification
ReferenceType(area, w, h) ==
    IF area < 100 THEN NoElement
    ELSE IF /\ 1000 < area /\ area < 50000
            /\ 2 * h < 10 * w /\ w < 5 * h
            /\ 20 < w /\ w < 400 /\ 15 < h /\ h < 100 THEN "button"
    ELSE IF 500 < area /\ area < 100000 /\ w > 2 * h /\ h < 50 THEN "input"
    ELSE IF 400 < area /\ area < 10000 /\ 5 * h < 10 * w /\ w < 2 * h THEN "icon"
    ELSE IF area > 50000 THEN "panel"
    ELSE NoElement

\* detect_elements has returned for the image of the frame, OpenCV having worked
DetectDone == "ui_elements" \in DOMAIN cur /\ "ui" \notin cur.failed

\* type, bounding box and area of the elements the reference rule finds
ReferenceElements(contours) ==
    {[type |-> ReferenceType(contours[i].area, contours[i].w, contours[i].h),
      bbox |-> [x |-> contours[i].x, y |-> contours[i].y,
                width |-> contours[i].w, height |-> contours[i].h],
      area |-> contours[i].area] :
        i \in {j \in 1..Len(contours) :
                 ReferenceType(contours[j].area, contours[j].w, contours[j].h)
                    # NoElement}}

Described(e) == [type |-> e.type, bbox |-> e.bbox, area |-> e.area]

\* C34: every contour is classified by the first-match rule (discarded under
\* area 100, else button, else input, else icon, else panel, else nothing),
\* and the elements are returned by descending confidence, cut to the 50 of
\* highest confidence.
C34_FirstMatchSortedTopFifty ==
    DetectDone =>
       LET out == cur.ui_elements
           expected == ReferenceElements(cur.frame.contours)
           returned == {Described(out[k]) : k \in 1..Len(out)}
       IN /\ returned \subseteq expected
          /\ Cardinality(returned) = Len(out)
          /\ Len(out) = IF Cardinality(expected) < 50 THEN Cardinality(expected) ELSE 50
          /\ \A k \in 1..Len(out) :
                /\ out[k].confidence = (IF out[k].area < 10000
                                        THEN <<out[k].area, 10000>>
                                        ELSE <<10000, 10000>>)
                /\ k > 1 => out[k].confidence[1] <= out[k - 1].confidence[1]
          /\ \A e \in expected \ returned :
                \A k \in 1..Len(out) : e.area <= out[k].area \/ out[k].area >= 10000

\* a contour that passes the button rule and the input rule is a button
C34_Witness ==
    /\ DetectDone
    /\ Len(cur.frame.contours) = 1
    /\ cur.frame.contours[1].area = 1001
    /\ cur.frame.contours[1].w = 100 /\ cur.frame.contours[1].h = 30
    /\ Len(cur.ui_elements) = 1
    /\ cur.ui_elements[1].type = "button"

\* 53 elements were detected and the 50 of highest confidence were returned
C34_WitnessTruncated ==
    /\ DetectDone
    /\ cur.frame.contours = C_crowded
    /\ Cardinality(ReferenceElements(cur.frame.contours)) = 53
    /\ Len(cur.ui_elements) = 50
    /\ cur.ui_elements[1].area = 3600
    /\ cur.ui_elements[50].area = 600

-----------------------------------------------------------------------------
(* The listener thread against the pipeline of execute_action *)

\* C35: under every interleaving of the listener with the main cycle, no
\* low-level input operation is started once the listener has set the flag;
\* an action that was being validated or was waiting for its confirmation
\* when the flag was set is not dispatched.
C35_NoInputStartedAfterStop ==
    [][emergency_stop => (events' = events \/ events' = << >>)]_vars

-----------------------------------------------------------------------------
(* The order in which execute_user_command records its steps *)

\* the step indices of a completed or failed list of the tracker
RecordedIn(list) == {list[k][1] : k \in 1..Len(list)}

\* the two lists hold every index once, in one list only, and together they
\* hold exactly the indices 0 .. n - 1
RecordsPrefix(completed, failed, n) ==
    /\ RecordedIn(completed) \cap RecordedIn(failed) = {}
    /\ Cardinality(RecordedIn(completed)) = Len(completed)
    /\ Cardinality(RecordedIn(failed)) = Len(failed)
    /\ RecordedIn(completed) \cup RecordedIn(failed) = 0..(n - 1)

\* C36: steps are attempted in plan order, one at a time: when step idx is
\* attempted the outcomes of exactly the steps before it are recorded, each
\* index once and in one of the completed/failed lists, and the recorded
\* indices of the tracker and of its documents always form a prefix 0..k.
C36_StepsRecordedInPlanOrder ==
    /\ e_pc = "attempt" =>
          RecordsPrefix(tracker.completed_steps, tracker.failed_steps, idx - 1)
    /\ e_pc = "report" =>
          RecordsPrefix(tracker.completed_steps, tracker.failed_steps, Len(steps))
    /\ \A f \in DOMAIN files :
          RecordsPrefix(files[f].completed_steps, files[f].failed_steps,
                        Len(files[f].completed_steps) + Len(files[f].failed_steps))

\* a plan of five steps ran to its end with its third step failed
C36_Witness ==
    /\ e_pc = "report"
    /\ Len(steps) = 5
    /\ RecordedIn(tracker.failed_steps) = {2}
    /\ RecordedIn(tracker.completed_steps) = {0, 1, 3, 4}

-----------------------------------------------------------------------------
(* The action history under the Controller operations that touch it, and the
   list that get_action_history hands to its caller *)

\* a list that is the stored history itself, not a copy of it
history_alias(history) == [items |-> history, taken |-> history, aliased |-> TRUE,
                           mutated |-> FALSE]

\* self.action_history.copy(): a new list of the same entries
history_copy(history) == [items |-> history, taken |-> history, aliased |-> FALSE,
                          mutated |-> FALSE]

\* the action dicts given to execute_action here
HistoryActions == {A_click, A_click_no_y, A_key_enter}

\* lengths of the history at which a further call is made
HistoryLengths == {0, 1}

\* a whole call of execute_action on the main thread
HistoryCall ==
    /\ pc = "idle"
    /\ Len(action_history) \in HistoryLengths
    /\ \E action \in HistoryActions, osOk \in BOOLEAN :
          LET h == ControllerCall(action, emergency_stop, safe_mode,
                                  confirm_sensitive_actions, "none", running_apps,
                                  scaling_factor, osOk)
          IN /\ action_history' = action_history \o h.appended
             /\ running_apps' = h.apps
    /\ UNCHANGED <<emergency_stop, running, pressed_keys>>
    /\ UNCHANGED <<cfgVars, callVars, seqVars, engVars, trkVars>>

\* get_action_history returns to its caller
HistoryReturned ==
    /\ pc = "idle"
    /\ result' = history_copy(action_history)
    /\ UNCHANGED <<pc, cur, verdict, gate, channel, events>>
    /\ UNCHANGED <<ctlVars, cfgVars, seqVars, engVars, trkVars>>

ListMutations == {"append", "pop", "clear", "reverse"}

\* a list after one of the list operations of its holder
Mutated(list, op) ==
    CASE op = "append" -> Append(list, Null)
      [] op = "pop" -> IF list = << >> THEN list ELSE SubSeq(list, 1, Len(list) - 1)
      [] op = "clear" -> << >>
      [] op = "reverse" -> [k \in 1..Len(list) |-> list[Len(list) + 1 - k]]

\* the caller changes the list it was given; a list that is the stored
\* history changes the history with it
CallerMutates ==
    /\ pc = "idle"
    /\ result # Null
    /\ ~result.mutated
    /\ \E op \in ListMutations :
          /\ Mutated(result.items, op) # result.items
          /\ result' = [result EXCEPT !.items = Mutated(result.items, op),
                                      !.mutated = TRUE]
          /\ action_history' = IF result.aliased THEN Mutated(action_history, op)
                               ELSE action_history
    /\ UNCHANGED <<emergency_stop, running, pressed_keys, running_apps>>
    /\ UNCHANGED <<pc, cur, verdict, gate, channel, events>>
    /\ UNCHANGED <<cfgVars, seqVars, engVars, trkVars>>

NextHistory ==
    \/ HistoryCall
    \/ HistoryReturned
    \/ CallerMutates
    \/ clear_action_history
    \/ start
    \/ stop

SpecHistory == InitEngineRun /\ [][NextHistory]_vars

\* C37 as stated: the history before any Controller operation is a prefix of
\* the history after it, and a change of the list get_action_history returned
\* leaves the stored history as it is.
C37_HistoryAppendOnly ==
    [][/\ StartsWith(action_history', action_history)
       /\ CallerMutates => action_history' = action_history]_vars

\* C37 amended: the history before every operation other than
\* clear_action_history is a prefix of the history after it, and
\* clear_action_history leaves it empty; a change of the list
\* get_action_history returned leaves the stored history as it is.
C37_AppendOnlyUntilCleared ==
    [][/\ IF clear_action_history THEN action_history' = << >>
          ELSE StartsWith(action_history', action_history)
       /\ CallerMutates => action_history' = action_history]_vars

\* the caller reversed its copy of a history of two entries, which is stored
\* as it was
C37_Witness ==
    /\ result # Null
    /\ result.mutated
    /\ Len(result.taken) = 2
    /\ result.taken[1] # result.taken[2]
    /\ result.items = <<result.taken[2], result.taken[1]>>
    /\ action_history = result.taken

\* the history was cleared after a copy of two entries was handed out
C37_WitnessCleared ==
    /\ result # Null
    /\ Len(result.taken) = 2
    /\ action_history = << >>

-----------------------------------------------------------------------------
(* The list execute_action_sequence returns *)

\* the actions of the given list in their order: those whose results were
\* collected, the one being executed, and those not started
GivenActions ==
    [k \in 1..Len(seq_results) |-> seq_results[k].details]
    \o (IF cur # Null THEN <<cur>> ELSE << >>)
    \o seq_rest

\* a result of a failed action that carries stop_on_failure
StopsSequence(r) == ~r.success /\ Get(r.details, "stop_on_failure", FALSE) = TRUE

\* C38: execute_action_sequence collects one result per action it started,
\* in the order of the given list; it starts no action once it has seen the
\* emergency-stop flag set; the first failed action with stop_on_failure is
\* the last one started; and it goes on after every other failed action: it
\* returns before the end of the list only for the flag or such a failure.
C38_SequenceReturnsPrefix ==
    /\ [](seq_on =>
            /\ \A k \in 1..Len(seq_results) :
                  StopsSequence(seq_results[k]) =>
                     k = Len(seq_results) /\ pc = "seq_done"
            /\ (pc = "seq_done" /\ seq_rest # << >>) =>
                  \/ emergency_stop
                  \/ /\ seq_results # << >>
                     /\ StopsSequence(seq_results[Len(seq_results)]))
    /\ [][/\ (seq_on /\ seq_on') => GivenActions' = GivenActions
          /\ (pc = "seq_loop" /\ emergency_stop) => cur' = Null]_vars

\* the sequence went on after a failed key press without stop_on_failure and
\* collected the result of the next action
C38_Witness ==
    /\ pc = "seq_done"
    /\ ~emergency_stop
    /\ Len(seq_results) = 2
    /\ ~seq_results[1].success
    /\ seq_results[1].details = A_key_enter
    /\ seq_results[2].details = A_no_type_stop

\* the sequence stopped after a failed first action that carries
\* stop_on_failure, with an action of the list not started
C38_WitnessStopped ==
    /\ pc = "seq_done"
    /\ ~emergency_stop
    /\ Len(seq_results) = 1
    /\ seq_rest = <<A_key_enter>>

-----------------------------------------------------------------------------
(* advanced_features.py: TaskPlanner.  The planner object is held in cur:
   tasks (task id -> task), task_queue (the entries of the PriorityQueue) and
   current_task. *)

\* hashlib.md5(user_prompt.encode()).hexdigest()[:8] of the prompts
\* 'open chrome' and 'close chrome', in the order of string comparison
TaskIds == <<"57859077", "d985c362">>

UserPrompts == {1, 2}

task_id_of(user_prompt) == TaskIds[user_prompt]

\* the answers of the oracle to the planning prompt: JSON with a priority,
\* JSON without one, or no usable answer
PlanningOutcomes == {"priority_3", "priority_8", "no_priority", "failed"}

\* entries a task_queue may hold when a task is created
QueueLengths == {0, 1, 2}

ProgressValues == {50, 100, 150}

\* (-priority, task_id) tuples compare by priority first, then by id
EntryLess(a, b) ==
    \/ a[1] < b[1]
    \/ /\ a[1] = b[1]
       /\ \E i, j \in 1..Len(TaskIds) : TaskIds[i] = a[2] /\ TaskIds[j] = b[2] /\ i < j

\* position of the entry that task_queue.get() removes
QueueHead(task_queue) ==
    CHOOSE k \in 1..Len(task_queue) :
       /\ \A j \in 1..Len(task_queue) : ~EntryLess(task_queue[j], task_queue[k])
       /\ \A j \in 1..(k - 1) : task_queue[j] # task_queue[k]

Without(list, k) == SubSeq(list, 1, k - 1) \o SubSeq(list, k + 1, Len(list))

\* self.tasks[task_id] = task; self.task_queue.put((-task.priority, task_id))
Stored(planner, task) ==
    [planner EXCEPT
        !.tasks = [t \in (DOMAIN planner.tasks) \cup {task.id} |->
                      IF t = task.id THEN task ELSE planner.tasks[t]],
        !.task_queue = Append(planner.task_queue, <<-task.priority, task.id>>)]

\* TaskPlanner._create_simple_task
create_simple_task(planner, user_prompt) ==
    Stored(planner, [id |-> task_id_of(user_prompt), priority |-> 5, steps |-> 1,
                     status |-> "pending", progress |-> 0])

\* TaskPlanner.create_task_from_prompt
create_task_from_prompt(planner, user_prompt, outcome) ==
    IF outcome = "failed" THEN create_simple_task(planner, user_prompt)
    ELSE Stored(planner, [id |-> task_id_of(user_prompt),
                          priority |-> CASE outcome = "priority_3" -> 3
                                         [] outcome = "priority_8" -> 8
                                         [] outcome = "no_priority" -> 5,
                          steps |-> 2, status |-> "pending", progress |-> 0])

NoTask == "None"

\* TaskPlanner.get_next_task: [planner, returned]
get_next_task(planner) ==
    IF planner.task_queue # << >>
    THEN LET k == QueueHead(planner.task_queue)
             task_id == planner.task_queue[k][2]
             popped == [planner EXCEPT !.task_queue = Without(@, k)]
         IN IF task_id \in DOMAIN planner.tasks
               /\ planner.tasks[task_id].status = "pending"
            THEN [planner |-> [popped EXCEPT !.tasks[task_id].status = "in_progress",
                                             !.current_task = task_id],
                  returned |-> task_id]
            ELSE [planner |-> popped, returned |-> NoTask]
    ELSE [planner |-> planner, returned |-> NoTask]

\* TaskPlanner.update_task_progress
update_task_progress(planner, task_id, progress) ==
    IF task_id \in DOMAIN planner.tasks
    THEN LET capped == IF progress < 100 THEN progress ELSE 100
         IN [planner EXCEPT !.tasks[task_id].progress = capped,
                            !.tasks[task_id].status =
                                IF capped >= 100 THEN "completed" ELSE @]
    ELSE planner

\* TaskPlanner.__init__
PlanInit ==
    /\ pc = "idle"
    /\ pc' = "planner"
    /\ cur' = [tasks |-> << >>, task_queue |-> << >>, current_task |-> NoTask]
    /\ UNCHANGED <<verdict, gate, channel, result, events>>
    /\ UNCHANGED <<ctlVars, cfgVars, seqVars, engVars, trkVars>>

PlanCreate ==
    /\ pc = "planner"
    /\ Len(cur.task_queue) \in QueueLengths
    /\ \E user_prompt \in UserPrompts, outcome \in PlanningOutcomes :
          cur' = create_task_from_prompt(cur, user_prompt, outcome)
    /\ events' = <<"create_task_from_prompt">>
    /\ result' = Null
    /\ UNCHANGED <<pc, verdict, gate, channel>>
    /\ UNCHANGED <<ctlVars, cfgVars, seqVars, engVars, trkVars>>

PlanNext ==
    /\ pc = "planner"
    /\ cur' = get_next_task(cur).planner
    /\ result' = [returned |-> get_next_task(cur).returned]
    /\ events' = <<"get_next_task">>
    /\ UNCHANGED <<pc, verdict, gate, channel>>
    /\ UNCHANGED <<ctlVars, cfgVars, seqVars, engVars, trkVars>>

PlanUpdate ==
    /\ pc = "planner"
    /\ \E i \in 1..Len(TaskIds), progress \in ProgressValues :
          cur' = update_task_progress(cur, TaskIds[i], progress)
    /\ events' = <<"update_task_progress">>
    /\ result' = Null
    /\ UNCHANGED <<pc, verdict, gate, channel>>
    /\ UNCHANGED <<ctlVars, cfgVars, seqVars, engVars, trkVars>>

NextPlanner == PlanInit \/ PlanCreate \/ PlanNext \/ PlanUpdate

SpecPlanner == InitEngineRun /\ [][NextPlanner]_vars

\* the ids of the stored tasks whose status is pending
PendingTasks(planner) ==
    {t \in DOMAIN planner.tasks : planner.tasks[t].status = "pending"}

\* C39: whenever a stored task is pending, get_next_task returns a pending
\* task of maximal priority and sets it to in_progress; it returns None only
\* when no task is pending; it never returns a task that was in_progress or
\* completed.
C39_NextTaskIsBestPending ==
    [][PlanNext =>
          LET pending == PendingTasks(cur)
              returned == result'.returned
          IN /\ pending # {} =>
                   /\ returned \in pending
                   /\ \A t \in pending :
                         cur.tasks[t].priority <= cur.tasks[returned].priority
                   /\ cur'.tasks[returned].status = "in_progress"
             /\ returned = NoTask => pending = {}
             /\ returned # NoTask => cur.tasks[returned].status = "pending"]_vars

\* what the code keeps of C39: a returned task was pending and is now
\* in_progress
ReturnedTaskWasPending ==
    [][PlanNext =>
          LET returned == result'.returned
          IN returned # NoTask =>
                /\ cur.tasks[returned].status = "pending"
                /\ cur'.tasks[returned].status = "in_progress"]_vars

-----------------------------------------------------------------------------
(* real_desktop_agent.py: RealDesktopAgent.run, from the prompt of the user to
   the head of the step loop of execute_user_command *)

\* what get_user_prompt returns
RunCommands == {Cmd_open_search, Cmd_dance_sing, Cmd_play, Cmd_empty}

\* the oracle's answers during one call of refactor_user_prompt: to the first
\* prompt, to the backup prompt and inside extract_search_term
OracleBehaviours ==
    {<<primary, secondary, ai>> :
        primary \in {OracleFailure, OracleOk(R_numbered), OracleOk(R_nothing)},
        secondary \in {OracleFailure, OracleOk(R_second)},
        ai \in ExtractResponses}

\* run up to the start countdown: the steps are computed and printed
run ==
    /\ pc = "idle"
    /\ \E started \in BOOLEAN, user_prompt \in RunCommands, o \in OracleBehaviours :
          IF ~started \/ user_prompt = << >>
          THEN /\ pc' = "run_returned"
               /\ cur' = [user_prompt |-> user_prompt]
               /\ events' = << >>
          ELSE /\ pc' = "run_countdown"
               /\ cur' = [user_prompt |-> user_prompt, oracle |-> o]
               /\ events' = <<[displayed |->
                                 refactor_user_prompt(user_prompt, o[1], o[2], o[3]).steps]>>
    /\ UNCHANGED <<verdict, gate, channel, result>>
    /\ UNCHANGED <<ctlVars, cfgVars, seqVars, engVars, trkVars>>

\* the three seconds in which Ctrl+C aborts the run
Countdown ==
    /\ pc = "run_countdown"
    /\ \E interrupted \in BOOLEAN :
          pc' = IF interrupted THEN "run_stopped" ELSE "run_execute"
    /\ UNCHANGED <<cur, verdict, gate, channel, result, events>>
    /\ UNCHANGED <<ctlVars, cfgVars, seqVars, engVars, trkVars>>

\* execute_user_command(self.user_prompt) up to its step loop: the steps it
\* will execute
RunExecute ==
    /\ pc = "run_execute"
    /\ \E o \in OracleBehaviours :
          result' = [executed |->
                        refactor_user_prompt(cur.user_prompt, o[1], o[2], o[3]).steps,
                     oracle |-> o]
    /\ pc' = "run_executing"
    /\ UNCHANGED <<cur, verdict, gate, channel, events>>
    /\ UNCHANGED <<ctlVars, cfgVars, seqVars, engVars, trkVars>>

NextRun == run \/ Countdown \/ RunExecute

SpecRun == InitEngineRun /\ [][NextRun]_vars

\* C40: the list of steps displayed before the start countdown is the list of
\* steps execute_user_command executes, for every command and every
\* behaviour of the oracle.
C40_DisplayedPlanIsExecutedPlan ==
    pc = "run_executing" => result.executed = events[1].displayed

\* what the code keeps of C40: the two lists are equal when the oracle gives
\* the same answers to both decompositions
SameAnswersSamePlan ==
    (pc = "run_executing" /\ result.oracle = cur.oracle) =>
        result.executed = events[1].displayed

====
